---------------------------- MODULE Spec2Model ----------------------------
(***************************************************************************)
(* Verification model of the MRMS service (services/mrms-rs) and of the    *)
(* runtime service (services/runtime-rs):                                  *)
(*   - Spec:       the scheduler loop and the enqueue path sharing         *)
(*                 `latest`, `pending` and `recent_timestamps`.            *)
(*   - SpecQuery:  the same with the /volume and /meta handlers reading    *)
(*                 `latest` under its lock.                                *)
(*   - SpecVolume: the snapshot tiling of ingest_timestamp and the V1/V2   *)
(*                 wire builders of api.rs applied to bounded scans and    *)
(*                 queries.                                                *)
(*   - SpecPhase:  the voxel loop of ingest_timestamp resolving the phase  *)
(*                 of one sampled voxel, then the post-pass of the level.  *)
(*   - SpecEdges:  promote_mixed_transition_edges on bounded levels.       *)
(*   - SpecRetry:  the scheduler loop retrying one timestamp whose every   *)
(*                 ingest fails.                                           *)
(*   - SpecDecode: decode_bincraft_aircraft on bounded binCraft payloads.  *)
(*   - SpecTraffic: the /traffic handler over its upstream candidates.     *)
(*   - SpecTrace:  fetch_recent_trace_history batching trace requests.     *)
(*   - SpecStore:  persist_snapshot and apply_retention on the scans       *)
(*                 directory.                                              *)
(*   - SpecRecent: the scheduler loop on a full recent_timestamps set.     *)
(*   - SpecLevels: the scheduler loop with the level fan-out of            *)
(*                 ingest_timestamp taken one result at a time.            *)
(*   - SpecPush:   sqs_loop receiving, enqueuing and deleting messages.    *)
(*   - SpecEdgesTwice: promote_mixed_transition_edges applied to its own   *)
(*                 result.                                                 *)
(*   - SpecFair:   the scheduler loop and the enqueue path under fair      *)
(*                 scheduling, with the clock kept as offsets from now.    *)
(* Timestamps are the fixed-width strings YYYYMMDD-HHMMSS; their lexical   *)
(* order is the order of the integers that stand for them here.            *)
(***************************************************************************)
EXTENDS Integers, Sequences, FiniteSets, TLC

\* ------------------------------------------------------------------ bounds
MaxTimestamp == 2
MaxTime == 1
MaxFailures == 1
MaxIngests == 2
\* grid of the modelled scans: GridNx columns, GridNy rows
GridNx == 50
GridNy == 22
\* grid and size of the levels the mixed-edge post-pass is run on
EdgeNx == 3
EdgeNy == 2
MaxLevelVoxels == 3
\* records of a modelled binCraft payload
MaxSlots == 2
\* longest response list whose trace history is fetched
MaxAircraft == 83
\* scans directory: timestamps of its files and snapshots persisted in a run
MaxStoredTimestamp == 3
MaxPersists == 2
\* push loop: receive calls, and messages in what one receive returns
MaxReceives == 2
MaxMessages == 2
\* SpecRetry: the clock, long enough for every retry of one timestamp
MaxRetryTime == 21
MaxRetryFailures == 22

\* cfg.pending_retry_delay, in clock ticks
PendingRetryDelay == 1

\* ------------------------------------------------------- program constants
MAX_PENDING_ATTEMPTS == 20
RECENT_CAPACITY == 512
LEVEL_COUNT == 33

Timestamps == 1..MaxTimestamp
Levels == 0..(LEVEL_COUNT - 1)
Enqueuers == {"sqs", "bootstrap"}

VARIABLES
    now,                \* Instant::now(), a monotonic clock
    latest,             \* Option<Arc<ScanSnapshot>>: <<>> or <<scan>>
    pending,            \* HashMap<String, PendingIngest>
    recent_timestamps,  \* HashSet<String>
    persisted,          \* timestamps persist_snapshot has written
    enq,                \* per enqueuing loop: position inside enqueue_timestamp
    sched,              \* position of ingest_scheduler_loop and its locals
    readers,            \* handlers holding the read lock on `latest`
    vol,                \* per HTTP handler: position and response under construction
    ingests,            \* successful ingests so far (snapshot generation)
    failures,           \* failed ingests so far
    scan,               \* SpecVolume: the ScanSnapshot an ingest has built
    wire,               \* SpecVolume: the response /volume has built from it
    sample,             \* SpecPhase: what one iteration of the voxel loop samples
    resolved,           \* SpecPhase: the evidence and PhaseResolution of that voxel
    phase_debug,        \* the phase counters of ingest_timestamp
    level_voxels,       \* Vec<LevelPhaseVoxel> of the level being built
    level_pc,           \* "voxels" while the level is filled, "promoted" after its post-pass
    fetched_body,       \* SpecDecode: the body handed to decode_bincraft_aircraft
    traffic,            \* the /traffic handler: position, locals and response
    store,              \* the scans directory and the position of apply_retention
    push                \* sqs_loop: the batch received and the message being handled

vars == <<now, latest, pending, recent_timestamps, persisted, enq, sched,
          readers, vol, ingests, failures, scan, wire, sample, resolved, phase_debug, level_voxels,
          level_pc, fetched_body, traffic, store, push>>

ctlvars == <<now, latest, pending, recent_timestamps, persisted, enq, sched,
             readers, vol, ingests, failures>>

\* what the phase resolver, the traffic proxy, the scan store and the push
\* loop work on
auxvars == <<sample, resolved, phase_debug, level_voxels, level_pc, fetched_body,
            traffic, store, push>>

\* ------------------------------------------------------------ Option helper
None == <<>>
Some(x) == <<x>>
IsSome(o) == Len(o) = 1
Unwrap(o) == o[1]

\* ------------------------------------------------------------------ grids
\* GridDef with its scalars in micro-degrees
BaseGrid == [nx |-> GridNx, ny |-> GridNy, la1 |-> 55000000, lo1 |-> 230000000,
             di |-> 10000, dj |-> 10000]

Abs(x) == IF x < 0 THEN -x ELSE x

\* is_same_grid: counts equal, scalars within 1e-6 degrees
IsSameGrid(left, right) ==
    /\ left.nx = right.nx
    /\ left.ny = right.ny
    /\ Abs(left.la1 - right.la1) <= 1
    /\ Abs(left.lo1 - right.lo1) <= 1
    /\ Abs(left.di - right.di) <= 1
    /\ Abs(left.dj - right.dj) <= 1

\* ---------------------------------------------------------- ingest inputs
\* What the object store answers for one reflectivity level: the outcome of
\* fetch_bytes and parse_reflectivity_grib_gzipped, and the grid decoded.
LevelOutcomes == {"ok", "fetch_failed", "parse_failed"}

GridVariants ==
    { BaseGrid,
      [BaseGrid EXCEPT !.la1 = @ + 1],
      [BaseGrid EXCEPT !.la1 = @ + 2],
      [BaseGrid EXCEPT !.nx = @ + 1] }

\* Levels and completion positions the bounded inputs single out
LevelSamples == {0, LEVEL_COUNT - 1}
RotationSamples == {0, 17}

\* One reflectivity fan-out: all levels answer "ok" on BaseGrid except that
\* level `lvl` answers `outcome` on `grid`; futures complete in the order
\* rot, rot+1, ... (mod LEVEL_COUNT).
FanOut(lvl, outcome, grid, rot) ==
    [ outcome |-> [l \in Levels |-> IF l = lvl THEN outcome ELSE "ok"],
      grid    |-> [l \in Levels |-> IF l = lvl THEN grid ELSE BaseGrid],
      order   |-> [i \in 1..LEVEL_COUNT |-> (i - 1 + rot) % LEVEL_COUNT] ]

FanOuts ==
    { FanOut(l, o, BaseGrid, r) : l \in LevelSamples, o \in LevelOutcomes \ {"ok"},
                                  r \in RotationSamples }
    \cup { FanOut(l, "ok", g, 0) : l \in LevelSamples, g \in GridVariants }

\* IngestLevels without the grid comparison against the base level
IngestLevelsNoGridCheck(f) ==
    LET failing == { i \in 1..LEVEL_COUNT : f.outcome[f.order[i]] # "ok" }
        first   == CHOOSE i \in failing : \A j \in failing : i <= j
    IN  IF failing # {}
        THEN [ok |-> FALSE, collected |-> first]
        ELSE [ok |-> TRUE, collected |-> LEVEL_COUNT]

\* ingest_timestamp, reflectivity part: results are taken from the unordered
\* stream in completion order and the first Err returns (`result?`); then
\* every slot must be filled, and every level's grid must match level 0.
\* Returns [ok, collected]: collected = results taken before returning.
IngestLevels(f) ==
    LET failing == { i \in 1..LEVEL_COUNT : f.outcome[f.order[i]] # "ok" }
        first   == CHOOSE i \in failing : \A j \in failing : i <= j
        filled  == { f.order[i] : i \in 1..LEVEL_COUNT }
        base    == f.grid[0]
    IN  IF failing # {}
        THEN [ok |-> FALSE, collected |-> first]
        ELSE IF \E l \in Levels : l \notin filled
        THEN [ok |-> FALSE, collected |-> LEVEL_COUNT]
        ELSE IF \E l \in Levels \ {0} : ~IsSameGrid(f.grid[l], base)
        THEN [ok |-> FALSE, collected |-> LEVEL_COUNT]
        ELSE [ok |-> TRUE, collected |-> LEVEL_COUNT]

\* ------------------------------------------------------------ enqueue path
IdleEnq == [pc |-> "idle", timestamp |-> 0, skip_at_call |-> FALSE, last |-> "none"]

\* SupersededByLatest with `<` in place of `<=`
SupersededByLatestStrict(timestamp, slot) ==
    IsSome(slot) /\ timestamp < Unwrap(slot).timestamp

\* enqueue_timestamp, first check: `timestamp <= latest.as_str()` returns
SupersededByLatest(timestamp, slot) ==
    IsSome(slot) /\ timestamp <= Unwrap(slot).timestamp

\* UpsertPending that overwrites the whole entry (insert instead of and_modify)
UpsertPendingResetAttempts(map, timestamp, t) ==
    [k \in DOMAIN map \cup {timestamp} |->
        IF k = timestamp THEN [attempts |-> 0, next_attempt_at |-> t] ELSE map[k]]

\* enqueue_timestamp, the entry().and_modify().or_insert() on the pending map
UpsertPending(map, timestamp, t) ==
    IF timestamp \in DOMAIN map
    THEN [map EXCEPT ![timestamp].next_attempt_at = t]
    ELSE [k \in DOMAIN map \cup {timestamp} |->
            IF k = timestamp THEN [attempts |-> 0, next_attempt_at |-> t]
            ELSE map[k]]

\* the state enqueue_timestamp(timestamp) is called in: the slot holds this
\* timestamp or a later one, or the timestamp is in recent_timestamps
\* (recorded with the call, read by no step of it)
FilteredAtCall(timestamp) ==
    \/ latest # None /\ latest[1].timestamp >= timestamp
    \/ timestamp \in recent_timestamps

\* enqueue_timestamp up to its first return, as the calling loop `e` sees it:
\* reads `latest` under the read lock
CallEnqueueTimestamp(e, timestamp) ==
    /\ enq[e].pc = "idle"
    /\ LET skip == FilteredAtCall(timestamp)
       IN  enq' = [enq EXCEPT ![e] =
                IF SupersededByLatest(timestamp, latest)
                THEN [IdleEnq EXCEPT !.last = "skipped", !.skip_at_call = skip]
                ELSE [pc |-> "check_recent", timestamp |-> timestamp,
                      skip_at_call |-> skip, last |-> "none"]]

\* the same called from a loop whose own position the model does not keep
EnqueueReadLatest(e, timestamp) ==
    /\ CallEnqueueTimestamp(e, timestamp)
    /\ UNCHANGED <<now, latest, pending, recent_timestamps, persisted, sched,
                   readers, vol, ingests, failures,
                   scan, wire, auxvars>>

\* enqueue_timestamp: `recent.contains(timestamp)` under the recent mutex
EnqueueCheckRecent(e) ==
    /\ enq[e].pc = "check_recent"
    /\ enq' = [enq EXCEPT ![e] =
            IF enq[e].timestamp \in recent_timestamps
            THEN [IdleEnq EXCEPT !.last = "skipped",
                                 !.skip_at_call = enq[e].skip_at_call]
            ELSE [@ EXCEPT !.pc = "insert"]]
    /\ UNCHANGED <<now, latest, pending, recent_timestamps, persisted, sched,
                   readers, vol, ingests, failures,
                   scan, wire, auxvars>>

\* enqueue_timestamp: the upsert under the pending mutex
EnqueueInsert(e) ==
    /\ enq[e].pc = "insert"
    /\ pending' = UpsertPending(pending, enq[e].timestamp, now)
    /\ enq' = [enq EXCEPT ![e] =
            [IdleEnq EXCEPT !.last = IF enq[e].timestamp \in DOMAIN pending
                                     THEN "expedited" ELSE "inserted"]]
    /\ UNCHANGED <<now, latest, recent_timestamps, persisted, sched,
                   readers, vol, ingests, failures,
                   scan, wire, auxvars>>

\* ---------------------------------------------------------------- push loop
\* A message body is a sequence of tokens: an object key of the base level
\* (its file name carries a timestamp) or any other text.
KeyToken(timestamp) == [key |-> TRUE, timestamp |-> timestamp]
TextToken == [key |-> FALSE, timestamp |-> 0]

\* the ascending sequence of the elements of a set of timestamps
RECURSIVE SortedSeq(_)
SortedSeq(set) ==
    IF set = {} THEN << >>
    ELSE LET least == CHOOSE x \in set : \A y \in set : x <= y
         IN  <<least>> \o SortedSeq(set \ {least})

\* extract_timestamps_from_sqs_body: the captures of the key pattern go into
\* a HashSet, which is returned as a sorted Vec
extract_timestamps_from_sqs_body(body) ==
    SortedSeq({body[i].timestamp : i \in {i \in 1..Len(body) : body[i].key}})

\* the for loop over extracted_timestamps that stops after its first turn
RestAfterBreak(extracted_timestamps) == << >>

\* the for loop over extracted_timestamps moving on to its next element
RestAfter(extracted_timestamps) == Tail(extracted_timestamps)

IdlePush == [pc |-> "receive", receives |-> 0, messages |-> << >>,
             message |-> None, extracted_timestamps |-> << >>, passed |-> << >>,
             handled |-> FALSE, delete_sent |-> FALSE, deleted |-> FALSE]

\* receive_message().send().await: an Err (sleep and continue), no message
\* (continue) or up to ten messages
PushReceive(received) ==
    /\ push.pc = "receive"
    /\ push.receives < MaxReceives
    /\ push' = IF "receive_error" \in DOMAIN received \/ received.messages = << >>
               THEN [push EXCEPT !.receives = @ + 1]
               ELSE [push EXCEPT !.receives = @ + 1, !.pc = "message",
                                 !.messages = received.messages]
    /\ UNCHANGED <<ctlvars, scan, wire, sample, resolved, phase_debug, level_voxels,
                   level_pc, fetched_body, traffic, store>>

\* the head of the for loop over messages: the timestamps of the body, none
\* for a message without a body
PushExtract ==
    /\ push.pc = "message"
    /\ LET message == Head(push.messages)
       IN  push' = [push EXCEPT
                       !.pc = "enqueue",
                       !.messages = Tail(@),
                       !.message = Some(message),
                       !.extracted_timestamps =
                           IF IsSome(message.body)
                           THEN extract_timestamps_from_sqs_body(Unwrap(message.body))
                           ELSE << >>,
                       !.passed = << >>,
                       !.handled = FALSE, !.delete_sent = FALSE, !.deleted = FALSE]
    /\ UNCHANGED <<ctlvars, scan, wire, sample, resolved, phase_debug, level_voxels,
                   level_pc, fetched_body, traffic, store>>

\* enqueue_timestamp(&state, &timestamp) is called for the next timestamp
PushEnqueue ==
    /\ push.pc = "enqueue"
    /\ push.extracted_timestamps # << >>
    /\ CallEnqueueTimestamp("sqs", Head(push.extracted_timestamps))
    /\ push' = [push EXCEPT !.pc = "in_enqueue"]
    /\ UNCHANGED <<now, latest, pending, recent_timestamps, persisted, sched,
                   readers, vol, ingests, failures, scan, wire, sample, resolved,
                   phase_debug, level_voxels, level_pc, fetched_body, traffic, store>>

\* .await of that call completes
PushEnqueueReturned ==
    /\ push.pc = "in_enqueue"
    /\ enq["sqs"].pc = "idle"
    /\ push' = [push EXCEPT
                   !.pc = "enqueue",
                   !.passed = Append(@, Head(push.extracted_timestamps)),
                   !.extracted_timestamps = RestAfter(@)]
    /\ UNCHANGED <<ctlvars, scan, wire, sample, resolved, phase_debug, level_voxels,
                   level_pc, fetched_body, traffic, store>>

\* after the loop: delete_message for a message with a receipt handle, whose
\* Err is logged; then the next message, or the next receive
PushDelete(delete_ok) ==
    /\ push.pc = "enqueue"
    /\ push.extracted_timestamps = << >>
    /\ LET message == Unwrap(push.message)
       IN  push' = [push EXCEPT
                       !.pc = IF push.messages = << >> THEN "receive" ELSE "message",
                       !.handled = TRUE,
                       !.delete_sent = message.receipt_handle,
                       !.deleted = message.receipt_handle /\ delete_ok]
    /\ UNCHANGED <<ctlvars, scan, wire, sample, resolved, phase_debug, level_voxels,
                   level_pc, fetched_body, traffic, store>>

\* --------------------------------------------------------- scheduler loop
IdleSched == [pc |-> "select", timestamp |-> 0, attempts |-> 0, gen |-> 0,
              levels_ok |-> FALSE]

\* All orders in which a HashMap may hand out the keys `keys`
IterationOrders(keys) ==
    { ord \in [1..Cardinality(keys) -> keys] :
        \A i, j \in 1..Cardinality(keys) : i # j => ord[i] # ord[j] }

\* The match guard of the selection loop: the arm that keeps `selected`
KeepsSelectedGreatest(current, timestamp, entry) ==
    timestamp <= current.timestamp

KeepsSelected(current, timestamp, entry) ==
    \/ entry.next_attempt_at > current.due
    \/ (entry.next_attempt_at = current.due /\ timestamp >= current.timestamp)

\* The selection loop over pending.iter(), visiting ord[i], ord[i+1], ...
RECURSIVE SelectFrom(_, _, _, _, _)
SelectFrom(map, ord, i, t, selected) ==
    IF i > Len(ord) THEN selected
    ELSE LET timestamp == ord[i]
             entry     == map[timestamp]
             next == IF entry.next_attempt_at <= t
                     THEN IF IsSome(selected)
                             /\ KeepsSelected(Unwrap(selected), timestamp, entry)
                          THEN selected
                          ELSE Some([timestamp |-> timestamp,
                                     due |-> entry.next_attempt_at])
                     ELSE selected
         IN  SelectFrom(map, ord, i + 1, t, next)

\* SelectCandidate that takes every entry for due
SelectCandidateIgnoringDue(map, ord, t) ==
    SelectFrom(map, ord, 1, MaxTime + PendingRetryDelay, None)

SelectCandidate(map, ord, t) == SelectFrom(map, ord, 1, t, None)

RemoveKey(map, key) == [k \in DOMAIN map \ {key} |-> map[k]]

\* ShouldReplace without the timestamp comparison
ShouldReplaceAlways(slot, timestamp) == TRUE

\* `should_replace` under the write lock
ShouldReplace(slot, timestamp) ==
    IF IsSome(slot) THEN timestamp >= Unwrap(slot).timestamp ELSE TRUE

\* CanWrite of a lock that lets the writer in next to readers
CanWriteBesideReaders(rd) == TRUE

\* latest.write().await completes only when no read guard is alive
CanWrite(rd) == rd = {}

\* recent.insert, then one removal of recent.iter().next() when over capacity;
\* `victim` is the element the HashSet iterator yields first
RecordRecent(recent, timestamp, victim, capacity) ==
    LET inserted == recent \cup {timestamp}
    IN  IF Cardinality(inserted) > capacity THEN inserted \ {victim} ELSE inserted

\* RetainNewer keeping the entries below the ingested timestamp instead
RetainOlder(map, timestamp) ==
    [k \in { x \in DOMAIN map : x < timestamp } |-> map[k]]

\* pending.retain(|timestamp, _| timestamp > &scan.timestamp)
RetainNewer(map, timestamp) ==
    [k \in { x \in DOMAIN map : x > timestamp } |-> map[k]]

\* ReinsertFailed that never puts the entry back
ReinsertFailedNever(map, timestamp, attempts, t, delay) == map

\* pending.insert on the failure path, guarded by the attempt cap
ReinsertFailedAtCap(map, timestamp, attempts, t, delay) ==
    IF attempts + 1 <= MAX_PENDING_ATTEMPTS
    THEN [k \in DOMAIN map \cup {timestamp} |->
            IF k = timestamp
            THEN [attempts |-> attempts + 1, next_attempt_at |-> t + delay]
            ELSE map[k]]
    ELSE map

ReinsertFailed(map, timestamp, attempts, t, delay) ==
    IF attempts + 1 < MAX_PENDING_ATTEMPTS
    THEN [k \in DOMAIN map \cup {timestamp} |->
            IF k = timestamp
            THEN [attempts |-> attempts + 1, next_attempt_at |-> t + delay]
            ELSE map[k]]
    ELSE map

\* Top of the loop: pick the due entry and remove it (None: sleep and retry)
SchedSelect ==
    /\ sched.pc = "select"
    /\ \E ord \in IterationOrders(DOMAIN pending) :
         LET selected == SelectCandidate(pending, ord, now)
         IN  /\ IsSome(selected)
             /\ sched' = [IdleSched EXCEPT
                    !.pc = "ingest",
                    !.timestamp = Unwrap(selected).timestamp,
                    !.attempts = pending[Unwrap(selected).timestamp].attempts]
             /\ pending' = RemoveKey(pending, Unwrap(selected).timestamp)
    /\ UNCHANGED <<now, latest, recent_timestamps, persisted, enq, readers,
                   vol, ingests, failures,
                   scan, wire, auxvars>>

\* ingest_timestamp(&state, &timestamp).await with the answers `f`
SchedIngest(f) ==
    /\ sched.pc = "ingest"
    /\ LET r == IngestLevels(f)
           all_ok == /\ \A l \in Levels : f.outcome[l] = "ok"
                     /\ \A l \in Levels : IsSameGrid(f.grid[l], f.grid[0])
       IN  IF r.ok
           THEN /\ ingests < MaxIngests
                /\ ingests' = ingests + 1
                /\ failures' = failures
                /\ sched' = [sched EXCEPT !.pc = "persist", !.gen = ingests + 1,
                                          !.levels_ok = all_ok]
           ELSE /\ failures < MaxFailures
                /\ failures' = failures + 1
                /\ ingests' = ingests
                /\ sched' = [sched EXCEPT !.pc = "failed",
                                          !.levels_ok = all_ok]
    /\ UNCHANGED <<now, latest, pending, recent_timestamps, persisted, enq,
                   readers, vol,
                   scan, wire, auxvars>>

\* persist_snapshot(...).await; an Err is logged and the loop goes on
SchedPersist(written) ==
    /\ sched.pc = "persist"
    /\ written \/ failures < MaxFailures
    /\ persisted' = IF written THEN persisted \cup {sched.timestamp} ELSE persisted
    /\ failures' = IF written THEN failures ELSE failures + 1
    /\ sched' = [sched EXCEPT !.pc = "publish"]
    /\ UNCHANGED <<now, latest, pending, recent_timestamps, enq, readers, vol,
                   ingests,
                   scan, wire, auxvars>>

\* The block that takes the write lock on `latest`
SchedPublish ==
    /\ sched.pc = "publish"
    /\ CanWrite(readers)
    /\ latest' = IF ShouldReplace(latest, sched.timestamp)
                 THEN Some([timestamp |-> sched.timestamp, gen |-> sched.gen])
                 ELSE latest
    /\ sched' = [sched EXCEPT !.pc = "record"]
    /\ UNCHANGED <<now, pending, recent_timestamps, persisted, enq, readers,
                   vol, ingests, failures,
                   scan, wire, auxvars>>

\* The block that locks recent_timestamps
SchedRecord ==
    /\ sched.pc = "record"
    /\ \E victim \in recent_timestamps \cup {sched.timestamp} :
         recent_timestamps' =
             RecordRecent(recent_timestamps, sched.timestamp, victim, RECENT_CAPACITY)
    /\ sched' = [sched EXCEPT !.pc = "prune"]
    /\ UNCHANGED <<now, latest, pending, persisted, enq, readers, vol,
                   ingests, failures,
                   scan, wire, auxvars>>

\* The block that prunes pending; the loop then starts over
SchedPrune ==
    /\ sched.pc = "prune"
    /\ pending' = RetainNewer(pending, sched.timestamp)
    /\ sched' = IdleSched
    /\ UNCHANGED <<now, latest, recent_timestamps, persisted, enq, readers,
                   vol, ingests, failures,
                   scan, wire, auxvars>>

\* The Err arm; the loop then starts over
SchedFail ==
    /\ sched.pc = "failed"
    /\ pending' = ReinsertFailed(pending, sched.timestamp, sched.attempts, now,
                                 PendingRetryDelay)
    /\ sched' = IdleSched
    /\ UNCHANGED <<now, latest, recent_timestamps, persisted, enq, readers,
                   vol, ingests, failures,
                   scan, wire, auxvars>>

\* Time passes
Tick ==
    /\ now < MaxTime
    /\ now' = now + 1
    /\ UNCHANGED <<latest, pending, recent_timestamps, persisted, enq, sched,
                   readers, vol, ingests, failures,
                   scan, wire, auxvars>>

\* ------------------------------------------- ingest_timestamp, level by level
\* ingest_timestamp pushes one future per level into a FuturesUnordered whose
\* answers and completion order are `f`; nothing is taken from it yet
IngestFanOut(f) ==
    /\ sched.pc = "ingest"
    /\ sched' = [pc |-> "collect", timestamp |-> sched.timestamp,
                 attempts |-> sched.attempts, gen |-> sched.gen,
                 levels_ok |-> FALSE, fan_out |-> f, taken |-> 0,
                 parsed_levels |-> {}]
    /\ UNCHANGED <<now, latest, pending, recent_timestamps, persisted, enq,
                   readers, vol, ingests, failures, scan, wire, auxvars>>

\* one turn of `while let Some(result) = futures.next().await`: `result?`
\* returns the first Err, which drops the stream and the futures still in it
IngestNextResult ==
    /\ sched.pc = "collect"
    /\ sched.taken < LEVEL_COUNT
    /\ LET level_idx == sched.fan_out.order[sched.taken + 1]
       IN  IF sched.fan_out.outcome[level_idx] = "ok"
           THEN /\ sched' = [sched EXCEPT !.taken = @ + 1,
                                          !.parsed_levels = @ \cup {level_idx}]
                /\ failures' = failures
           ELSE /\ failures < MaxFailures
                /\ sched' = [sched EXCEPT !.pc = "failed", !.taken = @ + 1]
                /\ failures' = failures + 1
    /\ UNCHANGED <<now, latest, pending, recent_timestamps, persisted, enq,
                   readers, vol, ingests, scan, wire, auxvars>>

\* the stream is exhausted: every slot of parsed_levels must be filled and
\* every level must have the grid of the base level
IngestCheckLevels ==
    /\ sched.pc = "collect"
    /\ sched.taken = LEVEL_COUNT
    /\ LET f == sched.fan_out
           ok == /\ \A l \in Levels : l \in sched.parsed_levels
                 /\ \A l \in Levels \ {0} : IsSameGrid(f.grid[l], f.grid[0])
       IN  IF ok
           THEN /\ ingests < MaxIngests
                /\ ingests' = ingests + 1
                /\ failures' = failures
                /\ sched' = [sched EXCEPT !.pc = "persist", !.gen = ingests + 1,
                                          !.levels_ok = TRUE]
           ELSE /\ failures < MaxFailures
                /\ failures' = failures + 1
                /\ ingests' = ingests
                /\ sched' = [sched EXCEPT !.pc = "failed"]
    /\ UNCHANGED <<now, latest, pending, recent_timestamps, persisted, enq,
                   readers, vol, scan, wire, auxvars>>

\* ----------------------------------------------------------- HTTP handlers
NoResponse == [status |-> 0, locked |-> -1, body |-> -1, headers |-> -1]
IdleVol == [pc |-> "idle", locked |-> -1, body |-> -1, resp |-> NoResponse]
\* the requests in flight: one to /v1/volume and one to /v1/meta
Handlers == {"volume", "meta"}

\* Identity of the snapshot in a slot (its generation), -1 for an empty slot
SlotGen(slot) == IF IsSome(slot) THEN Unwrap(slot).gen ELSE -1

\* volume: the lat/lon range check fails, 400 without touching `latest`
VolumeBadRequest(h) ==
    /\ vol[h].pc = "idle"
    /\ vol' = [vol EXCEPT ![h] = [IdleVol EXCEPT !.resp.status = 400]]
    /\ UNCHANGED <<now, latest, pending, recent_timestamps, persisted, enq,
                   sched, readers, ingests, failures,
                   scan, wire, auxvars>>

\* volume: state.latest.read().await, then 503 on an empty slot
VolumeReadLock(h) ==
    /\ vol[h].pc = "idle"
    /\ IF IsSome(latest)
       THEN /\ readers' = readers \cup {h}
            /\ vol' = [vol EXCEPT ![h] =
                    [IdleVol EXCEPT !.pc = "build", !.locked = SlotGen(latest)]]
       ELSE /\ readers' = readers
            /\ vol' = [vol EXCEPT ![h] = [IdleVol EXCEPT !.resp.status = 503]]
    /\ UNCHANGED <<now, latest, pending, recent_timestamps, persisted, enq,
                   sched, ingests, failures,
                   scan, wire, auxvars>>

\* volume: build_volume_wire(scan, ...) reads the snapshot through the guard
VolumeBuild(h) ==
    /\ vol[h].pc = "build"
    /\ vol' = [vol EXCEPT ![h] =
            [@ EXCEPT !.pc = "headers", !.body = SlotGen(latest)]]
    /\ UNCHANGED <<now, latest, pending, recent_timestamps, persisted, enq,
                   sched, readers, ingests, failures,
                   scan, wire, auxvars>>

\* volume: the X-AV-* headers are read from `scan`, the guard drops on return
VolumeRespond(h) ==
    /\ vol[h].pc = "headers"
    /\ vol' = [vol EXCEPT ![h] =
            [IdleVol EXCEPT !.resp =
                [status |-> 200, locked |-> vol[h].locked, body |-> vol[h].body,
                 headers |-> SlotGen(latest)]]]
    /\ readers' = readers \ {h}
    /\ UNCHANGED <<now, latest, pending, recent_timestamps, persisted, enq,
                   sched, ingests, failures,
                   scan, wire, auxvars>>

\* meta: state.latest.read().await
MetaReadLock(h) ==
    /\ vol[h].pc = "idle"
    /\ readers' = readers \cup {h}
    /\ vol' = [vol EXCEPT ![h] =
            [IdleVol EXCEPT !.pc = "meta", !.locked = SlotGen(latest)]]
    /\ UNCHANGED <<now, latest, pending, recent_timestamps, persisted, enq,
                   sched, ingests, failures,
                   scan, wire, auxvars>>

\* meta: every field of the response is read from the slot, the guard drops
MetaRespond(h) ==
    /\ vol[h].pc = "meta"
    /\ vol' = [vol EXCEPT ![h] =
            [IdleVol EXCEPT !.resp =
                [status |-> 200, locked |-> vol[h].locked,
                 body |-> SlotGen(latest), headers |-> SlotGen(latest)]]]
    /\ readers' = readers \ {h}
    /\ UNCHANGED <<now, latest, pending, recent_timestamps, persisted, enq,
                   sched, ingests, failures,
                   scan, wire, auxvars>>

\* ------------------------------------------------------------ scan contents
\* Angles are in hundredths of a degree, distances in hundredths of a nautical
\* mile, heights in hundredths of a kilometre: the floating-point expressions
\* of the source are evaluated exactly on these rationals.
STORE_MIN_DBZ_TENTHS == 50
WIRE_HEADER_BYTES == 64
WIRE_V2_VERSION == 2
WIRE_V2_RECORD_BYTES == 20
WIRE_V2_DBZ_QUANT_STEP_TENTHS == 50
WIRE_V2_MAX_SPAN_LOW_DBZ == 48
WIRE_V2_MAX_SPAN_HIGH_DBZ == 20
WIRE_V2_MAX_VERTICAL_SPAN == 4
MIN_ALLOWED_DBZ == 5
MAX_ALLOWED_DBZ == 60
MIN_ALLOWED_RANGE_NM == 30
MAX_ALLOWED_RANGE_NM == 220
U16_MAX == 65535
I16_MAX == 32767

\* LEVEL_TAGS parsed as kilometres, times 100
LEVEL_TAGS ==
    <<50, 75, 100, 125, 150, 175, 200, 225, 250, 275, 300, 350, 400, 450, 500,
      550, 600, 650, 700, 750, 800, 850, 900, 1000, 1100, 1200, 1300, 1400,
      1500, 1600, 1700, 1800, 1900>>

Min(a, b) == IF a <= b THEN a ELSE b
Max(a, b) == IF a >= b THEN a ELSE b

\* f64::floor and f64::ceil of the rational a / b, b # 0
FloorDiv(a, b) == IF b > 0 THEN a \div b ELSE (-a) \div (-b)
CeilDiv(a, b) == -FloorDiv(-a, b)

\* f64::round (half away from zero) of the rational a / b, b > 0
RoundDiv(a, b) ==
    IF a >= 0 THEN (2 * a + b) \div (2 * b) ELSE -((2 * (-a) + b) \div (2 * b))

\* round_u16 of the rational a / b
round_u16(a, b) == Min(Max(RoundDiv(a, b), 0), U16_MAX)

\* round_i16 of the rational a / b
round_i16(a, b) == Min(Max(RoundDiv(a, b), -I16_MAX - 1), I16_MAX)

clamp_i64(value, min_value, max_value) == Min(Max(value, min_value), max_value)

\* compute_level_bounds: 2 * bottom_km and 2 * top_km of level idx (1-based),
\* then feet = round_u16(km * 3280.84)
LevelBottomTwice(level_km, idx) ==
    IF idx > 1
    THEN level_km[idx - 1] + level_km[idx]
    ELSE LET next_level == IF Len(level_km) > 1 THEN level_km[2]
                           ELSE level_km[1] + 50
         IN  Max(2 * level_km[1] - (next_level - level_km[1]), 0)

LevelTopTwice(level_km, idx) ==
    IF idx < Len(level_km)
    THEN level_km[idx] + level_km[idx + 1]
    ELSE LET prev_level == IF idx > 1 THEN level_km[idx - 1]
                           ELSE level_km[idx] - 50
         IN  2 * level_km[idx] + (level_km[idx] - prev_level)

\* km * FEET_PER_KM for km = twice / 200: twice * 3280.84 / 200 = twice * 82021 / 5000
compute_level_bounds(level_km) ==
    [idx \in 1..Len(level_km) |->
        [bottom_feet |-> round_u16(LevelBottomTwice(level_km, idx) * 82021, 5000),
         top_feet    |-> round_u16(LevelTopTwice(level_km, idx) * 82021, 5000)]]

\* GridDef of the volume engine: la1, lo1 (0..36000) and the signed steps
VolumeGrid ==
    [nx |-> GridNx, ny |-> GridNy, la1 |-> 5500, lo1 |-> 23000,
     lat_step |-> -10, lon_step |-> 10]

\* the same grid laid across the 0/360 meridian
MeridianGrid == [VolumeGrid EXCEPT !.lo1 = 35800]

\* A parsed scan: per block of cells the dBZ (tenths) of the reflectivity
\* field and the phase the resolver gave; cells outside every block are
\* missing data.  Where blocks overlap the first one is the field's value.
Block(r0, r1, c0, c1, l0, l1, dbz, phase) ==
    [r0 |-> r0, r1 |-> r1, c0 |-> c0, c1 |-> c1, l0 |-> l0, l1 |-> l1,
     dbz_tenths |-> dbz, phase |-> phase]

Scenes ==
    { [grid |-> VolumeGrid, blocks |-> << >>],
      [grid |-> VolumeGrid,
       blocks |-> << Block(3, 3, 0, GridNx - 1, 0, 0, 200, 0),
                     Block(9, 10, 30, 33, 32, 32, 610, 1) >>],
      [grid |-> VolumeGrid,
       blocks |-> << Block(0, GridNy - 1, 17, 17, 2, 2, 430, 0),
                     Block(0, 2, 40, 42, 10, 15, 300, 1),
                     Block(12, 12, 0, GridNx - 1, 0, 0, 180, 2) >>],
      [grid |-> VolumeGrid,
       blocks |-> << Block(15, 16, 15, 16, 4, 4, 470, 3),
                     Block(5, 6, 5, 8, 1, 1, 210, 0),
                     Block(7, 7, 5, 6, 1, 1, 220, 0),
                     Block(14, 17, 14, 18, 4, 5, 60, 2),
                     Block(14, 17, 19, 20, 4, 5, 40, 2),
                     Block(20, 21, 47, 49, 0, 1, 120, 1) >>],
      [grid |-> MeridianGrid,
       blocks |-> << Block(8, 10, 15, 25, 0, 0, 250, 0),
                     Block(8, 10, 26, 27, 0, 0, 240, 1) >>] }

InBlock(b, level, row, col) ==
    /\ b.l0 <= level /\ level <= b.l1
    /\ b.r0 <= row /\ row <= b.r1
    /\ b.c0 <= col /\ col <= b.c1

\* the cells of the field that carry data, with the value of the first block
FieldCells(scene) ==
    LET blocks == scene.blocks
        covered(i) == { <<l, r, c>> : l \in blocks[i].l0..blocks[i].l1,
                                      r \in blocks[i].r0..blocks[i].r1,
                                      c \in blocks[i].c0..blocks[i].c1 }
        first(l, r, c) == CHOOSE i \in 1..Len(blocks) :
                              /\ InBlock(blocks[i], l, r, c)
                              /\ \A j \in 1..(i - 1) : ~InBlock(blocks[j], l, r, c)
    IN  { [level_idx  |-> cell[1], row |-> cell[2], col |-> cell[3],
           dbz_tenths |-> blocks[first(cell[1], cell[2], cell[3])].dbz_tenths,
           phase      |-> blocks[first(cell[1], cell[2], cell[3])].phase] :
          cell \in { x \in UNION { covered(i) : i \in 1..Len(blocks) } :
                        /\ x[1] \in Levels
                        /\ x[2] \in 0..(scene.grid.ny - 1)
                        /\ x[3] \in 0..(scene.grid.nx - 1) } }

\* sequence of the elements of a set of <<key, element>> pairs, by ascending key
RECURSIVE SortPairs(_)
SortPairs(pairs) ==
    IF pairs = {} THEN << >>
    ELSE LET least == CHOOSE p \in pairs : \A q \in pairs : p[1] <= q[1]
         IN  <<least[2]>> \o SortPairs(pairs \ {least})

\* ingest_timestamp: the order the level, row and column loops visit a cell in
VisitOrder(grid, v) == (v.level_idx * grid.ny + v.row) * grid.nx + v.col

\* Bucket with the tile row and the tile column exchanged
BucketTransposed(cells, grid, tile_size, tile_cols, tile_idx) ==
    SortPairs({ <<VisitOrder(grid, v), v>> :
                v \in { x \in cells :
                          (x.col \div tile_size) * tile_cols
                              + (x.row \div tile_size) = tile_idx } })

\* ingest_timestamp: the bucket of tile tile_idx, in push order
Bucket(cells, grid, tile_size, tile_cols, tile_idx) ==
    SortPairs({ <<VisitOrder(grid, v), v>> :
                v \in { x \in cells :
                          (x.row \div tile_size) * tile_cols
                              + (x.col \div tile_size) = tile_idx } })

\* ingest_timestamp: the flattening loop over the buckets
RECURSIVE FlattenBuckets(_, _, _, _)
FlattenBuckets(buckets, idx, tile_offsets, voxels) ==
    IF idx > Len(buckets) THEN [tile_offsets |-> tile_offsets, voxels |-> voxels]
    ELSE FlattenBuckets(buckets, idx + 1,
                        Append(tile_offsets, Len(voxels) + Len(buckets[idx])),
                        voxels \o buckets[idx])

\* ingest_timestamp, from the parsed levels to the ScanSnapshot
BuildSnapshot(scene, cfg_tile_size) ==
    LET grid       == scene.grid
        tile_size  == Max(cfg_tile_size, 16)
        tile_cols  == (grid.nx + tile_size - 1) \div tile_size
        tile_rows  == (grid.ny + tile_size - 1) \div tile_size
        tile_count == tile_cols * tile_rows
        stored     == { v \in FieldCells(scene) :
                          ~(v.dbz_tenths < STORE_MIN_DBZ_TENTHS) }
        buckets    == [t \in 1..tile_count |->
                          Bucket(stored, grid, tile_size, tile_cols, t - 1)]
        flat       == FlattenBuckets(buckets, 1, <<0>>, << >>)
    IN  [grid         |-> grid,
         tile_size    |-> tile_size,
         tile_cols    |-> tile_cols,
         tile_rows    |-> tile_rows,
         tile_offsets |-> flat.tile_offsets,
         voxels       |-> flat.voxels,
         level_bounds |-> compute_level_bounds(LEVEL_TAGS)]

\* values of cfg.tile_size (MRMS_TILE_SIZE)
TileSizeConfigs == {8, 16, 20}

\* a successful ingest_timestamp: the snapshot it returns
IngestScan(scene, cfg_tile_size) ==
    /\ scan = None
    /\ scan' = Some(BuildSnapshot(scene, cfg_tile_size))
    /\ UNCHANGED <<ctlvars, wire, auxvars>>

\* --------------------------------------------------------------- /volume
\* the wire version and record size of the V1 format
WIRE_V1_VERSION == 1
WIRE_V1_RECORD_BYTES == 16

\* projection_scales_nm_per_degree: nautical miles per degree of longitude and
\* of latitude at lat (hundredths of a degree), on a table of latitude bands
projection_scales_nm_per_degree(lat) ==
    [east  |-> IF Abs(lat) < 3000 THEN 56
               ELSE IF Abs(lat) < 5000 THEN 46
               ELSE IF Abs(lat) < 6000 THEN 35
               ELSE 15,
     north |-> 60]

\* to_lon360: `%` of Rust truncates, a negative remainder is lifted by 360
to_lon360(lon) ==
    LET normalized == IF lon >= 0 THEN lon % 36000 ELSE -((-lon) % 36000)
    IN  IF normalized < 0 THEN normalized + 36000 ELSE normalized

shortest_lon_delta_degrees(lon360, origin_lon360) ==
    LET delta == lon360 - origin_lon360
        down  == IF delta > 18000 THEN delta - 36000 ELSE delta
    IN  IF down < -18000 THEN down + 36000 ELSE down

\* build_query_window.  min_dbz is in hundredths of a dBZ, max_range_nm in
\* nautical miles, both already clamped by the handler.
build_query_window(s, origin_lat, origin_lon, min_dbz, max_range_nm) ==
    LET grid          == s.grid
        scales        == projection_scales_nm_per_degree(origin_lat)
        east          == Max(Abs(scales.east), 1)
        north         == Max(Abs(scales.north), 1)
        origin_lon360 == to_lon360(origin_lon)
        range         == 100 * max_range_nm
        \* row_from_lat(lat_min), row_from_lat(lat_max) as fractions over row_den
        row_den       == north * grid.lat_step
        row_lo        == north * (origin_lat - grid.la1) - range
        row_hi        == north * (origin_lat - grid.la1) + range
        lon_wrapped   == \/ east * origin_lon360 - range < 0
                         \/ east * origin_lon360 + range >= east * 36000
        col_den       == east * grid.lon_step
        col_lo        == east * (origin_lon360 - grid.lo1) - range
        col_hi        == east * (origin_lon360 - grid.lo1) + range
        row_start     == clamp_i64(Min(FloorDiv(row_lo, row_den),
                                       FloorDiv(row_hi, row_den)) - 1,
                                   0, grid.ny - 1)
        row_end       == clamp_i64(Max(CeilDiv(row_lo, row_den),
                                       CeilDiv(row_hi, row_den)) + 1,
                                   0, grid.ny - 1)
        col_start     == IF lon_wrapped THEN 0
                         ELSE clamp_i64(Min(FloorDiv(col_lo, col_den),
                                            FloorDiv(col_hi, col_den)) - 1,
                                        0, grid.nx - 1)
        col_end       == IF lon_wrapped THEN grid.nx - 1
                         ELSE clamp_i64(Max(CeilDiv(col_lo, col_den),
                                            CeilDiv(col_hi, col_den)) + 1,
                                        0, grid.nx - 1)
    IN  [min_dbz_tenths    |-> RoundDiv(min_dbz, 10),
         origin_lat        |-> origin_lat,
         origin_lon        |-> origin_lon,
         origin_lon360     |-> origin_lon360,
         max_range_nm      |-> max_range_nm,
         east              |-> east,
         north             |-> north,
         row_start         |-> row_start,
         row_end           |-> row_end,
         col_start         |-> col_start,
         col_end           |-> col_end,
         lon_wrapped       |-> lon_wrapped,
         tile_row_start    |-> row_start \div s.tile_size,
         tile_row_end      |-> row_end \div s.tile_size,
         tile_col_start    |-> IF lon_wrapped THEN 0 ELSE col_start \div s.tile_size,
         tile_col_end      |-> IF lon_wrapped THEN s.tile_cols - 1
                               ELSE col_end \div s.tile_size,
         footprint_x_milli |-> round_u16(Abs(grid.lon_step) * east * 10, 1),
         footprint_y_milli |-> round_u16(Abs(grid.lat_step) * north * 10, 1)]

\* project_grid_position_nm at row = row2 / 2, col = col2 / 2: twice x_nm and
\* twice z_nm, in hundredths of a nautical mile
project_grid_position_nm(s, window, row2, col2) ==
    LET lat2   == 2 * s.grid.la1 + row2 * s.grid.lat_step
        lon2   == 2 * s.grid.lo1 + col2 * s.grid.lon_step
        \* to_lon360 and shortest_lon_delta_degrees on the doubled angle
        n2     == IF lon2 >= 0 THEN lon2 % 72000 ELSE -((-lon2) % 72000)
        w2     == IF n2 < 0 THEN n2 + 72000 ELSE n2
        d2     == w2 - 2 * window.origin_lon360
        down2  == IF d2 > 36000 THEN d2 - 72000 ELSE d2
        delta2 == IF down2 < -36000 THEN down2 + 72000 ELSE down2
    IN  [x2 |-> delta2 * window.east,
         z2 |-> -(lat2 - 2 * window.origin_lat) * window.north]

\* x_nm * x_nm + z_nm * z_nm > max_range_squared_nm, on the doubled lengths
BeyondRange(pos, window) ==
    LET range2 == 200 * window.max_range_nm
    IN  \/ Abs(pos.x2) > range2
        \/ Abs(pos.z2) > range2
        \/ pos.z2 * pos.z2 > range2 * range2 - pos.x2 * pos.x2

\* the `continue`s at the head of the record loop of both wire builders
PassesFilters(s, window, record) ==
    /\ ~(record.row < window.row_start \/ record.row > window.row_end)
    /\ ~(~window.lon_wrapped
         /\ (record.col < window.col_start \/ record.col > window.col_end))
    /\ ~(record.dbz_tenths < window.min_dbz_tenths)
    /\ ~BeyondRange(project_grid_position_nm(s, window, 2 * record.row,
                                             2 * record.col), window)
    /\ record.level_idx < Len(s.level_bounds)

\* SelectRecords with `..` for `..=` in the tile column loop
RECURSIVE SelectRecordsExclusive(_, _, _, _)
SelectRecordsExclusive(s, window, tile_row, tile_col) ==
    IF tile_row > window.tile_row_end THEN << >>
    ELSE IF tile_col >= window.tile_col_end
    THEN SelectRecordsExclusive(s, window, tile_row + 1, window.tile_col_start)
    ELSE LET tile_idx == tile_row * s.tile_cols + tile_col
             Keep(record) == PassesFilters(s, window, record)
             here == IF tile_idx + 1 >= Len(s.tile_offsets) THEN << >>
                     ELSE SelectSeq(SubSeq(s.voxels,
                                           s.tile_offsets[tile_idx + 1] + 1,
                                           s.tile_offsets[tile_idx + 2]), Keep)
         IN  here \o SelectRecordsExclusive(s, window, tile_row, tile_col + 1)

\* the tile loops of both wire builders: the records that reach the encoder,
\* in the order the loops meet them
RECURSIVE SelectRecords(_, _, _, _)
SelectRecords(s, window, tile_row, tile_col) ==
    IF tile_row > window.tile_row_end THEN << >>
    ELSE IF tile_col > window.tile_col_end
    THEN SelectRecords(s, window, tile_row + 1, window.tile_col_start)
    ELSE LET tile_idx == tile_row * s.tile_cols + tile_col
             Keep(record) == PassesFilters(s, window, record)
             here == IF tile_idx + 1 >= Len(s.tile_offsets) THEN << >>
                     ELSE SelectSeq(SubSeq(s.voxels,
                                           s.tile_offsets[tile_idx + 1] + 1,
                                           s.tile_offsets[tile_idx + 2]), Keep)
         IN  here \o SelectRecords(s, window, tile_row, tile_col + 1)

RECURSIVE SumSeq(_)
SumSeq(seq) == IF seq = << >> THEN 0 ELSE Head(seq) + SumSeq(Tail(seq))

\* build_wire_header: the fields of the 64-byte header, by name; count_at_8 and
\* count_at_12 are the u32 at offsets 8 and 12
build_wire_header(s, window, wire_version, record_bytes, encoding_hint) ==
    [version           |-> wire_version,
     header_bytes      |-> WIRE_HEADER_BYTES,
     count_at_8        |-> 0,
     count_at_12       |-> 0,
     level_count       |-> Len(s.level_bounds),
     record_bytes      |-> record_bytes,
     footprint_x_milli |-> window.footprint_x_milli,
     footprint_y_milli |-> window.footprint_y_milli,
     min_dbz_tenths    |-> window.min_dbz_tenths,
     max_range_tenths  |-> round_u16(window.max_range_nm * 10, 1),
     tile_size         |-> s.tile_size,
     encoding_hint     |-> encoding_hint,
     origin_lat_micro  |-> window.origin_lat * 10000,
     origin_lon_micro  |-> window.origin_lon * 10000,
     layer_counts      |-> [l \in 1..Len(s.level_bounds) |-> 0],
     records           |-> << >>,
     payload_bytes     |-> 0]

\* widths of the fields build_volume_wire_v1 appends per record
V1RecordFields == <<2, 2, 2, 2, 2, 1, 1>>

\* build_volume_wire_v1
build_volume_wire_v1(s, window) ==
    LET body     == build_wire_header(s, window, WIRE_V1_VERSION,
                                      WIRE_V1_RECORD_BYTES, 0)
        selected == SelectRecords(s, window, window.tile_row_start,
                                  window.tile_col_start)
        Encode(record) ==
            LET pos == project_grid_position_nm(s, window, 2 * record.row,
                                                2 * record.col)
            IN  [x           |-> round_i16(pos.x2, 2),
                 z           |-> round_i16(pos.z2, 2),
                 bottom_feet |-> s.level_bounds[record.level_idx + 1].bottom_feet,
                 top_feet    |-> s.level_bounds[record.level_idx + 1].top_feet,
                 dbz_tenths  |-> record.dbz_tenths,
                 phase       |-> record.phase,
                 level_idx   |-> record.level_idx]
        voxel_count == Len(selected)
    IN  [body EXCEPT
            !.records       = [i \in 1..voxel_count |-> Encode(selected[i])],
            !.payload_bytes = voxel_count * SumSeq(V1RecordFields),
            !.count_at_12   = voxel_count,
            !.layer_counts  = [l \in 1..Len(s.level_bounds) |->
                                  Cardinality({ i \in 1..voxel_count :
                                      selected[i].level_idx = l - 1 })]]

\* quantize_dbz_tenths; `/` of Rust truncates toward zero
quantize_dbz_tenths(dbz_tenths, step_tenths) ==
    IF step_tenths <= 1 THEN dbz_tenths
    ELSE LET half      == step_tenths \div 2
             quantized == IF dbz_tenths >= 0
                          THEN ((dbz_tenths + half) \div step_tenths) * step_tenths
                          ELSE -(((half - dbz_tenths) \div step_tenths) * step_tenths)
         IN  Min(Max(quantized, -I16_MAX - 1), I16_MAX)

\* max_span_for_dbz without the high-reflectivity case
max_span_ignoring_dbz(dbz_tenths) == Max(WIRE_V2_MAX_SPAN_LOW_DBZ, 1)

\* max_span_for_dbz
max_span_for_dbz(dbz_tenths) ==
    IF dbz_tenths >= 450 THEN Max(WIRE_V2_MAX_SPAN_HIGH_DBZ, 1)
    ELSE Max(WIRE_V2_MAX_SPAN_LOW_DBZ, 1)

\* split_rectangle, inner loop: the chunks of one band of rows
RECURSIVE SplitColumns(_, _, _, _, _)
SplitColumns(rect, chunk_size, row_start, row_end, col_start) ==
    IF ~(col_start <= rect.col_end) THEN << >>
    ELSE LET col_end == Min(col_start + chunk_size - 1, rect.col_end)
             piece   == [row_start |-> row_start, row_end |-> row_end,
                         col_start |-> col_start, col_end |-> col_end,
                         key       |-> rect.key]
         IN  IF col_end = rect.col_end THEN <<piece>>
             ELSE <<piece>> \o SplitColumns(rect, chunk_size, row_start,
                                            row_end, col_end + 1)

\* split_rectangle, outer loop
RECURSIVE SplitRows(_, _, _)
SplitRows(rect, chunk_size, row_start) ==
    IF ~(row_start <= rect.row_end) THEN << >>
    ELSE LET row_end == Min(row_start + chunk_size - 1, rect.row_end)
             band    == SplitColumns(rect, chunk_size, row_start, row_end,
                                     rect.col_start)
         IN  IF row_end = rect.row_end THEN band
             ELSE band \o SplitRows(rect, chunk_size, row_end + 1)

\* split_rectangle stopping after the first band of rows
split_rectangle_first_band(rect, max_span) ==
    SplitColumns(rect, Max(max_span, 1), rect.row_start,
                 Min(rect.row_start + Max(max_span, 1) - 1, rect.row_end),
                 rect.col_start)

\* split_rectangle: what it appends to `out`
split_rectangle(rect, max_span) == SplitRows(rect, Max(max_span, 1), rect.row_start)

\* HashMap::insert
MapInsert(map, key, value) ==
    [k \in DOMAIN map \cup {key} |-> IF k = key THEN value ELSE map[k]]

\* the comparator of sort_unstable_by in build_level_rectangles
CellBefore(a, b) ==
    IF a.row # b.row THEN a.row < b.row
    ELSE IF a.col # b.col THEN a.col < b.col
    ELSE IF a.key.phase # b.key.phase THEN a.key.phase < b.key.phase
    ELSE a.key.dbz_tenths <= b.key.dbz_tenths

RECURSIVE SortCells(_, _)
SortCells(cells, indices) ==
    IF indices = {} THEN << >>
    ELSE LET least == CHOOSE i \in indices :
                          \A j \in indices : CellBefore(cells[i], cells[j])
         IN  <<cells[least]>> \o SortCells(cells, indices \ {least})

\* build_level_rectangles, first loop: the runs of the sorted cells, row by row
RECURSIVE RowRuns(_, _, _, _)
RowRuns(cells, i, run, runs) ==
    IF i > Len(cells) THEN Append(runs, run)
    ELSE LET cell == cells[i]
         IN  IF cell.row = run.row /\ cell.key = run.key /\ cell.col = run.col_end
             THEN RowRuns(cells, i + 1, run, runs)
             ELSE IF cell.row = run.row /\ cell.key = run.key
                     /\ cell.col = run.col_end + 1
             THEN RowRuns(cells, i + 1, [run EXCEPT !.col_end = cell.col], runs)
             ELSE RowRuns(cells, i + 1,
                          [row |-> cell.row, col_start |-> cell.col,
                           col_end |-> cell.col, key |-> cell.key],
                          Append(runs, run))

\* build_level_rectangles, second loop: runs of equal signature in consecutive
\* rows grow one rectangle.  `active` is the map of the row before.
RECURSIVE GrowRectangles(_, _, _, _, _)
GrowRectangles(runs, i, rectangles, active, next_active) ==
    IF i > Len(runs) THEN rectangles
    ELSE LET run       == runs[i]
             new_row   == i = 1 \/ runs[i - 1].row # run.row
             carried   == IF ~new_row THEN active
                          ELSE IF i > 1 /\ run.row # runs[i - 1].row + 1 THEN << >>
                          ELSE next_active
             collected == IF new_row THEN << >> ELSE next_active
             signature == [col_start |-> run.col_start, col_end |-> run.col_end,
                           key |-> run.key]
         IN  IF signature \in DOMAIN carried
             THEN GrowRectangles(runs, i + 1,
                     [rectangles EXCEPT ![carried[signature]].row_end = run.row],
                     RemoveKey(carried, signature),
                     MapInsert(collected, signature, carried[signature]))
             ELSE GrowRectangles(runs, i + 1,
                     Append(rectangles,
                            [row_start |-> run.row, row_end |-> run.row,
                             col_start |-> run.col_start, col_end |-> run.col_end,
                             key |-> run.key]),
                     carried,
                     MapInsert(collected, signature, Len(rectangles) + 1))

\* build_level_rectangles
build_level_rectangles(cells) ==
    IF cells = << >> THEN << >>
    ELSE LET sorted == SortCells(cells, 1..Len(cells))
             first  == [row |-> sorted[1].row, col_start |-> sorted[1].col,
                        col_end |-> sorted[1].col, key |-> sorted[1].key]
         IN  GrowRectangles(RowRuns(sorted, 2, first, << >>), 1, << >>,
                            << >>, << >>)

\* concatenation of split_rectangle over the rectangles of one level
RECURSIVE SplitAll(_, _)
SplitAll(rectangles, i) ==
    IF i > Len(rectangles) THEN << >>
    ELSE split_rectangle(rectangles[i], max_span_for_dbz(rectangles[i].key.dbz_tenths))
            \o SplitAll(rectangles, i + 1)

\* build_volume_wire_v2, vertical merge: level_idx counts from 0, i indexes the
\* rectangles of that level
RECURSIVE MergeLevels(_, _, _, _, _, _, _)
MergeLevels(s, by_level, level_idx, i, merged, active, next_active) ==
    IF level_idx >= Len(by_level) THEN merged
    ELSE IF i > Len(by_level[level_idx + 1])
    THEN MergeLevels(s, by_level, level_idx + 1, 1, merged, next_active, << >>)
    ELSE LET rect      == by_level[level_idx + 1][i]
             signature == rect
             known     == signature \in DOMAIN active
             current   == merged[active[signature]]
             extended  ==
                 /\ known
                 /\ current.level_end + 1 = level_idx
                 /\ level_idx - current.level_start + 1 <= WIRE_V2_MAX_VERTICAL_SPAN
                 /\ s.level_bounds[level_idx + 1].bottom_feet
                       <= Min(s.level_bounds[current.level_end + 1].top_feet + 1,
                              U16_MAX)
             remaining == IF known THEN RemoveKey(active, signature) ELSE active
         IN  IF extended
             THEN MergeLevels(s, by_level, level_idx, i + 1,
                     [merged EXCEPT ![active[signature]].level_end = level_idx],
                     remaining,
                     MapInsert(next_active, signature, active[signature]))
             ELSE MergeLevels(s, by_level, level_idx, i + 1,
                     Append(merged,
                            [row_start |-> rect.row_start, row_end |-> rect.row_end,
                             col_start |-> rect.col_start, col_end |-> rect.col_end,
                             level_start |-> level_idx, level_end |-> level_idx,
                             key |-> rect.key]),
                     remaining,
                     MapInsert(next_active, signature, Len(merged) + 1))

\* build_volume_wire_v2, emit loop: the records of the bricks whose centre is
\* within range
RECURSIVE EmitBricks(_, _, _, _)
EmitBricks(s, window, merged, i) ==
    IF i > Len(merged) THEN << >>
    ELSE LET brick == merged[i]
             pos   == project_grid_position_nm(s, window,
                          brick.row_start + brick.row_end,
                          brick.col_start + brick.col_end)
             record ==
                 [x           |-> round_i16(pos.x2, 2),
                  z           |-> round_i16(pos.z2, 2),
                  bottom_feet |-> s.level_bounds[brick.level_start + 1].bottom_feet,
                  top_feet    |-> s.level_bounds[brick.level_end + 1].top_feet,
                  dbz_tenths  |-> brick.key.dbz_tenths,
                  phase       |-> brick.key.phase,
                  level_start |-> brick.level_start,
                  span_x      |-> Min(brick.col_end - brick.col_start + 1, U16_MAX),
                  span_y      |-> Min(brick.row_end - brick.row_start + 1, U16_MAX),
                  span_z      |-> Min(brick.level_end - brick.level_start + 1, U16_MAX),
                  reserved    |-> 0,
                  brick       |-> brick]
         IN  IF BeyondRange(pos, window) THEN EmitBricks(s, window, merged, i + 1)
             ELSE <<record>> \o EmitBricks(s, window, merged, i + 1)

\* widths of the fields build_volume_wire_v2 appends per record
V2RecordFields == <<2, 2, 2, 2, 2, 1, 1, 2, 2, 2, 2>>

\* build_volume_wire_v2
build_volume_wire_v2(s, window) ==
    LET body     == build_wire_header(s, window, WIRE_V2_VERSION,
                                      WIRE_V2_RECORD_BYTES,
                                      WIRE_V2_DBZ_QUANT_STEP_TENTHS)
        selected == SelectRecords(s, window, window.tile_row_start,
                                  window.tile_col_start)
        AtLevel(l) == { i \in 1..Len(selected) : selected[i].level_idx = l - 1 }
        MergeCell(record) ==
            [row |-> record.row, col |-> record.col,
             key |-> [phase      |-> record.phase,
                      dbz_tenths |-> quantize_dbz_tenths(record.dbz_tenths,
                                        WIRE_V2_DBZ_QUANT_STEP_TENTHS)]]
        cells_by_level ==
            [l \in 1..Len(s.level_bounds) |->
                LET OnLevel(record) == record.level_idx = l - 1
                    mine == SelectSeq(selected, OnLevel)
                IN  [i \in 1..Len(mine) |-> MergeCell(mine[i])]]
        rectangles_by_level ==
            [l \in 1..Len(s.level_bounds) |->
                SplitAll(build_level_rectangles(cells_by_level[l]), 1)]
        merged  == MergeLevels(s, rectangles_by_level, 0, 1, << >>, << >>, << >>)
        records == EmitBricks(s, window, merged, 1)
    IN  [body EXCEPT
            !.records       = records,
            !.payload_bytes = Len(records) * SumSeq(V2RecordFields),
            !.count_at_8    = Len(selected),
            !.count_at_12   = Len(records),
            !.layer_counts  = [l \in 1..Len(s.level_bounds) |->
                                  Cardinality(AtLevel(l))]]

\* build_volume_wire
build_volume_wire(s, lat, lon, min_dbz, max_range_nm, wire_version) ==
    LET window == build_query_window(s, lat, lon, min_dbz, max_range_nm)
    IN  IF wire_version = WIRE_V1_VERSION THEN build_volume_wire_v1(s, window)
        ELSE build_volume_wire_v2(s, window)

\* query strings: lat and lon in hundredths of a degree, minDbz in hundredths
\* of a dBZ, maxRangeNm in nautical miles, the last three optional
Origins ==
    { [lat |-> 5400, lon |-> -12800], [lat |-> 5305, lon |-> -13105],
      [lat |-> 4000, lon |-> -12800], [lat |-> 5400, lon |-> 30],
      [lat |-> 9001, lon |-> 0] }
MinDbzParams == {None, Some(2255), Some(7000)}
MaxRangeParams == {None, Some(10), Some(60)}
WireVersionParams == {None, Some(1), Some(7)}
Queries ==
    { [lat |-> o.lat, lon |-> o.lon, min_dbz |-> d, max_range_nm |-> r,
       wire_version |-> v] :
      o \in Origins, d \in MinDbzParams, r \in MaxRangeParams,
      v \in WireVersionParams }

\* volume: the response to one request
Volume(query) ==
    /\ wire = None
    /\ LET min_dbz      == Min(Max(IF IsSome(query.min_dbz)
                                   THEN Unwrap(query.min_dbz) ELSE 500,
                                   100 * MIN_ALLOWED_DBZ), 100 * MAX_ALLOWED_DBZ)
           max_range_nm == Min(Max(IF IsSome(query.max_range_nm)
                                   THEN Unwrap(query.max_range_nm) ELSE 120,
                                   MIN_ALLOWED_RANGE_NM), MAX_ALLOWED_RANGE_NM)
           wire_version == IF query.wire_version = Some(WIRE_V1_VERSION)
                           THEN WIRE_V1_VERSION ELSE WIRE_V2_VERSION
       IN  wire' =
             IF query.lat < -9000 \/ query.lat > 9000
                \/ query.lon < -18000 \/ query.lon > 18000
             THEN Some([status |-> 400])
             ELSE IF scan = None
             THEN Some([status |-> 503])
             ELSE Some([status       |-> 200,
                        content_type |-> IF wire_version = WIRE_V2_VERSION
                                         THEN "v2" ELSE "v1",
                        body         |-> build_volume_wire(Unwrap(scan), query.lat,
                                             query.lon, min_dbz, max_range_nm,
                                             wire_version)])
    /\ UNCHANGED <<ctlvars, scan, auxvars>>

\* the response has been written to the connection
VolumeSent ==
    /\ wire # None
    /\ wire' = None
    /\ UNCHANGED <<ctlvars, scan, auxvars>>

\* ----------------------------------------------------------- phase resolver
\* The f32 scores, weights and confidences are held in millionths,
\* temperatures in hundredths of a degree, the precip flag in tenths, ZDR in
\* hundredths of a dB, RhoHV in thousandths, RQI in hundredths, heights in
\* metres and feet.  A height in feet is compared as feet * 25000, so that
\* FEET_PER_METER = 3.28084 = 82021 / 25000 stays exact.
PHASE_RAIN == 0
PHASE_MIXED == 1
PHASE_SNOW == 2
MIXED_SELECTION_MARGIN == 220000
MIXED_SELECTION_MARGIN_TRANSITION == 80000
MIXED_COMPETING_RAIN_SNOW_MIN_SCORE == 1700000
MIXED_COMPETING_RAIN_SNOW_DELTA_MAX == 1400000
MIXED_COMPETING_PROMOTION_MIN_SCORE == 2400000
MIXED_COMPETING_PROMOTION_GAP_MAX == 1600000
MIXED_COMPETING_PROMOTION_MARGIN == 140000
MIXED_DUAL_SUPPORT_CONFIDENCE_MIN == 500000
THERMO_NEAR_FREEZING_FEET == 1500
FREEZING_LEVEL_TRANSITION_FEET == 1500

\* feet * 25000 of a height given in metres, and of one given in feet
MetersAsFeet25k(meters) == meters * 82021
Feet25k(feet) == feet * 25000

\* PhaseScores::add
add(scores, phase, weight) ==
    IF weight <= 0 THEN scores
    ELSE IF phase = PHASE_RAIN THEN [scores EXCEPT !.rain = @ + weight]
    ELSE IF phase = PHASE_MIXED THEN [scores EXCEPT !.mixed = @ + weight]
    ELSE IF phase = PHASE_SNOW THEN [scores EXCEPT !.snow = @ + weight]
    ELSE scores

\* rank_phase_scores: the stable sort by descending score of
\* [(rain, .), (mixed, .), (snow, .)]
rank_phase_scores(scores) ==
    LET initial == << <<PHASE_RAIN, scores.rain>>, <<PHASE_MIXED, scores.mixed>>,
                      <<PHASE_SNOW, scores.snow>> >>
        Place(i) == 1 + Cardinality({j \in 1..3 :
                        \/ initial[j][2] > initial[i][2]
                        \/ initial[j][2] = initial[i][2] /\ j < i})
    IN  [k \in 1..3 |-> initial[CHOOSE i \in 1..3 : Place(i) = k]]

\* sanitize_zdr, sanitize_rhohv
sanitize_zdr(value) == IF value < -800 \/ value > 800 THEN None ELSE Some(value)
sanitize_rhohv(value) == IF value < 0 \/ value > 1050 THEN None ELSE Some(value)

\* resolve_dual_pol_evidence
resolve_dual_pol_evidence(zdr_value, rhohv_value) ==
    LET zdr   == IF IsSome(zdr_value) THEN sanitize_zdr(Unwrap(zdr_value)) ELSE None
        rhohv == IF IsSome(rhohv_value) THEN sanitize_rhohv(Unwrap(rhohv_value))
                 ELSE None
        Ev(phase, confidence) == Some([phase |-> phase, confidence |-> confidence])
    IN  IF IsSome(zdr) /\ IsSome(rhohv) THEN
            IF Unwrap(rhohv) < 940 THEN
                IF Unwrap(zdr) >= 65 THEN Ev(PHASE_RAIN, 550000)
                ELSE IF Unwrap(zdr) <= 5 THEN Ev(PHASE_SNOW, 550000)
                ELSE Ev(PHASE_MIXED, 450000)
            ELSE IF Unwrap(rhohv) >= 975 THEN
                IF Unwrap(zdr) >= 55 THEN Ev(PHASE_RAIN, 820000)
                ELSE IF Unwrap(zdr) <= 20 THEN Ev(PHASE_SNOW, 820000)
                ELSE Ev(PHASE_MIXED, 350000)
            ELSE IF Unwrap(zdr) >= 55 THEN Ev(PHASE_RAIN, 650000)
            ELSE IF Unwrap(zdr) <= 20 THEN Ev(PHASE_SNOW, 650000)
            ELSE Ev(PHASE_MIXED, 550000)
        ELSE IF IsSome(zdr) THEN
            IF Unwrap(zdr) >= 70 THEN Ev(PHASE_RAIN, 500000)
            ELSE IF Unwrap(zdr) <= 0 THEN Ev(PHASE_SNOW, 500000)
            ELSE Ev(PHASE_MIXED, 300000)
        ELSE IF IsSome(rhohv) THEN
            IF Unwrap(rhohv) < 920 THEN Ev(PHASE_MIXED, 350000) ELSE None
        ELSE None

\* phase_from_precip_flag: the flag is rounded to its code
phase_from_precip_flag(value) ==
    LET code == RoundDiv(value, 10)
    IN  IF code = 3 THEN Some(PHASE_SNOW)
        ELSE IF code = 7 THEN Some(PHASE_MIXED)
        ELSE IF code \in {1, 6, 10, 91, 96} THEN Some(PHASE_RAIN)
        ELSE None

\* phase_from_freezing_level
phase_from_freezing_level(voxel_mid_feet, freezing_level_meters_msl) ==
    LET freezing_level_feet == MetersAsFeet25k(freezing_level_meters_msl)
    IN  IF freezing_level_feet <= 0 THEN None
        ELSE IF Feet25k(voxel_mid_feet)
                  >= freezing_level_feet + Feet25k(FREEZING_LEVEL_TRANSITION_FEET)
        THEN Some(PHASE_SNOW)
        ELSE IF Feet25k(voxel_mid_feet)
                  <= freezing_level_feet - Feet25k(FREEZING_LEVEL_TRANSITION_FEET)
        THEN Some(PHASE_RAIN)
        ELSE Some(PHASE_MIXED)

\* normalize_temperature_celsius: Celsius as it is, Kelvin converted
normalize_temperature_celsius(value) ==
    IF value >= -9000 /\ value <= 7000 THEN Some(value)
    ELSE IF value >= 15000 /\ value <= 34000 THEN Some(value - 27315)
    ELSE None

\* normalize_height_meters: values under 50 are kilometres
normalize_height_meters(value) ==
    IF value <= 0 THEN None
    ELSE LET meters == IF value < 50 THEN value * 1000 ELSE value
         IN  IF meters < 100 \/ meters > 30000 THEN None ELSE Some(meters)

\* normalize_rqi: a fraction up to 1.05, a percentage up to 100; in millionths
normalize_rqi(value) ==
    IF value < 0 THEN None
    ELSE IF value <= 105 THEN Some(Min(Max(value * 10000, 0), 1000000))
    ELSE IF value <= 10000 THEN Some(Min(Max(value * 100, 0), 1000000))
    ELSE None

\* resolve_thermo_phase, given what sample_aux_field returned for each field
resolve_thermo_phase(voxel_mid_feet, precip, freezing, wet_bulb, surface_temp, bright_band_top, bright_band_bottom, rqi_sample) ==
    LET mid25k == Feet25k(voxel_mid_feet)
        s0 == [rain |-> 1000000, mixed |-> 700000, snow |-> 1000000]
        \* precipitation flag
        precip_flag_phase == IF IsSome(precip)
                             THEN phase_from_precip_flag(Unwrap(precip)) ELSE None
        WithPrecipFlag(s) ==
              IF precip_flag_phase = Some(PHASE_RAIN) THEN add(s, PHASE_RAIN, 3000000)
              ELSE IF precip_flag_phase = Some(PHASE_SNOW)
              THEN add(s, PHASE_SNOW, 3200000)
              ELSE IF precip_flag_phase = Some(PHASE_MIXED)
              THEN add(add(s, PHASE_MIXED, 1800000), PHASE_RAIN, 800000)
              ELSE s
        \* freezing level
        has_freezing == IsSome(freezing) /\ Unwrap(freezing) > 0
        freezing_phase == phase_from_freezing_level(voxel_mid_feet, Unwrap(freezing))
        delta25k == mid25k - MetersAsFeet25k(Unwrap(freezing))
        near25k == Feet25k(THERMO_NEAR_FREEZING_FEET)
        far25k == Feet25k(2500)
        WithFreezingPhase(s) ==
              IF IsSome(freezing_phase) THEN add(s, Unwrap(freezing_phase), 600000)
              ELSE s
        WithFreezingLevel(s) ==
              IF ~has_freezing THEN s
              ELSE IF delta25k >= far25k THEN add(WithFreezingPhase(s), PHASE_SNOW, 2400000)
              ELSE IF delta25k >= near25k
              THEN add(add(WithFreezingPhase(s), PHASE_SNOW, 1800000), PHASE_MIXED, 500000)
              ELSE IF delta25k <= -far25k THEN add(WithFreezingPhase(s), PHASE_RAIN, 2400000)
              ELSE IF delta25k <= -near25k
              THEN add(add(WithFreezingPhase(s), PHASE_RAIN, 1800000), PHASE_MIXED, 500000)
              ELSE IF delta25k >= 0
              THEN add(add(WithFreezingPhase(s), PHASE_MIXED, 1600000), PHASE_SNOW, 800000)
              ELSE add(add(WithFreezingPhase(s), PHASE_MIXED, 1600000), PHASE_RAIN, 800000)
        near_freezing == has_freezing /\ Abs(delta25k) <= near25k
        \* wet-bulb temperature
        wet_bulb_c == IF IsSome(wet_bulb)
                      THEN normalize_temperature_celsius(Unwrap(wet_bulb)) ELSE None
        WithWetBulb(s) ==
              IF ~IsSome(wet_bulb_c) THEN s
              ELSE IF Unwrap(wet_bulb_c) <= -150 THEN add(s, PHASE_SNOW, 2400000)
              ELSE IF Unwrap(wet_bulb_c) <= 50
              THEN add(add(s, PHASE_MIXED, 1100000), PHASE_SNOW, 1000000)
              ELSE IF Unwrap(wet_bulb_c) >= 200 THEN add(s, PHASE_RAIN, 2200000)
              ELSE add(add(s, PHASE_MIXED, 1100000), PHASE_RAIN, 1000000)
        near_wet_bulb == IsSome(wet_bulb_c) /\ Unwrap(wet_bulb_c) > -150
                         /\ Unwrap(wet_bulb_c) < 200
        \* surface temperature, weighted by (8000 - mid) / 8000
        surface_temp_c == IF IsSome(surface_temp)
                          THEN normalize_temperature_celsius(Unwrap(surface_temp))
                          ELSE None
        low_level_weight == 125 * Max(8000 - voxel_mid_feet, 0)
        Weighted(tenths) == RoundDiv(tenths * low_level_weight, 10)
        surface_applies == IsSome(surface_temp_c) /\ low_level_weight > 0
        WithSurfaceTemp(s) ==
              IF ~surface_applies THEN s
              ELSE IF Unwrap(surface_temp_c) <= -50 THEN add(s, PHASE_SNOW, Weighted(12))
              ELSE IF Unwrap(surface_temp_c) >= 200 THEN add(s, PHASE_RAIN, Weighted(12))
              ELSE IF Unwrap(surface_temp_c) <= 50
              THEN add(add(s, PHASE_MIXED, Weighted(8)), PHASE_SNOW, Weighted(4))
              ELSE add(add(s, PHASE_MIXED, Weighted(8)), PHASE_RAIN, Weighted(4))
        near_surface == surface_applies /\ Unwrap(surface_temp_c) > -50
                        /\ Unwrap(surface_temp_c) < 200
        \* bright band
        top_m == IF IsSome(bright_band_top)
                 THEN normalize_height_meters(Unwrap(bright_band_top)) ELSE None
        bottom_m == IF IsSome(bright_band_bottom)
                    THEN normalize_height_meters(Unwrap(bright_band_bottom)) ELSE None
        has_band == IsSome(top_m) /\ IsSome(bottom_m) /\ Unwrap(top_m) >= Unwrap(bottom_m)
        top25k == MetersAsFeet25k(Unwrap(top_m))
        bottom25k == MetersAsFeet25k(Unwrap(bottom_m))
        in_band == has_band /\ mid25k >= bottom25k - Feet25k(400)
                   /\ mid25k <= top25k + Feet25k(400)
        WithBrightBand(s) ==
              IF ~has_band THEN s
              ELSE IF in_band THEN add(s, PHASE_MIXED, 2000000)
              ELSE IF mid25k > top25k + Feet25k(800) THEN add(s, PHASE_SNOW, 1200000)
              ELSE IF mid25k < bottom25k - Feet25k(800) THEN add(s, PHASE_RAIN, 1200000)
              ELSE s
        s5 == WithBrightBand(WithSurfaceTemp(WithWetBulb(WithFreezingLevel(
                  WithPrecipFlag(s0)))))
        signal_count == (IF IsSome(precip_flag_phase) THEN 1 ELSE 0)
                        + (IF has_freezing THEN 1 ELSE 0)
                        + (IF IsSome(wet_bulb_c) THEN 1 ELSE 0)
                        + (IF IsSome(surface_temp_c) THEN 1 ELSE 0)
                        + (IF has_band THEN 1 ELSE 0)
        ranked == rank_phase_scores(s5)
        best_score == Max(ranked[1][2], 0)
        second_score == Max(ranked[2][2], 0)
    IN  [scores            |-> s5,
         phase             |-> ranked[1][1],
         \* (best - second) / (best + second), kept as a fraction
         confidence        |-> [num |-> best_score - second_score,
                                den |-> best_score + second_score],
         signal_count      |-> signal_count,
         near_transition   |-> near_freezing \/ near_wet_bulb \/ near_surface \/ in_band,
         precip_flag_phase |-> precip_flag_phase,
         rqi               |-> IF IsSome(rqi_sample) THEN normalize_rqi(Unwrap(rqi_sample))
                               ELSE None]

\* resolve_phase_from_evidence, the weight the dual-pol sample is injected with
DualWeight(thermo, dual, use_aux_fallback) ==
    LET stale_weight == IF use_aux_fallback THEN 22 ELSE 58
        rqi_weight == IF IsSome(thermo.rqi)
                      THEN Min(Max(350000 + RoundDiv(65 * Unwrap(thermo.rqi), 100),
                                   250000), 1000000)
                      ELSE 850000
        w0 == RoundDiv(RoundDiv(stale_weight * rqi_weight, 100) * (dual.confidence \div 10000),
                       100)
        w1 == IF dual.phase = PHASE_MIXED /\ ~thermo.near_transition
              THEN RoundDiv(w0 * 55, 100) ELSE w0
    IN  IF /\ dual.phase = PHASE_RAIN
           /\ thermo.phase = PHASE_SNOW
           /\ thermo.confidence.num * 100 >= 35 * thermo.confidence.den
           /\ thermo.precip_flag_phase = Some(PHASE_SNOW)
        THEN RoundDiv(w1 * 20, 100) ELSE w1

\* resolve_phase_from_evidence, the promotion of MIXED between competing rain
\* and snow
PromoteCompeting(thermo, scores, dual_mixed_support) ==
    LET rain_snow_promotion ==
            /\ scores.rain >= MIXED_COMPETING_PROMOTION_MIN_SCORE
            /\ scores.snow >= MIXED_COMPETING_PROMOTION_MIN_SCORE
            /\ Abs(scores.rain - scores.snow) <= MIXED_COMPETING_RAIN_SNOW_DELTA_MAX
        mixed_gap == Max(scores.rain, scores.snow) - scores.mixed
    IN  IF /\ rain_snow_promotion
           /\ (thermo.near_transition \/ dual_mixed_support \/ thermo.signal_count >= 2)
           /\ mixed_gap > 0
           /\ mixed_gap <= MIXED_COMPETING_PROMOTION_GAP_MAX
        THEN add(scores, PHASE_MIXED, mixed_gap + MIXED_COMPETING_PROMOTION_MARGIN)
        ELSE scores

\* resolve_phase_from_evidence, the selection margin of a top-ranked MIXED
SelectMixedOneMargin(ranked, transition_like) ==
    LET best_non_mixed == IF ranked[2][1] = PHASE_MIXED THEN ranked[3] ELSE ranked[2]
    IN  IF ranked[1][1] = PHASE_MIXED
           /\ ranked[1][2] - best_non_mixed[2] < MIXED_SELECTION_MARGIN_TRANSITION
        THEN [phase |-> best_non_mixed[1], suppressed_mixed |-> TRUE]
        ELSE [phase |-> ranked[1][1], suppressed_mixed |-> FALSE]

SelectMixed(ranked, transition_like) ==
    LET best_non_mixed == IF ranked[2][1] = PHASE_MIXED THEN ranked[3] ELSE ranked[2]
        mixed_advantage == ranked[1][2] - best_non_mixed[2]
        required_margin == IF transition_like THEN MIXED_SELECTION_MARGIN_TRANSITION
                           ELSE MIXED_SELECTION_MARGIN
    IN  IF ranked[1][1] = PHASE_MIXED /\ mixed_advantage < required_margin
        THEN [phase |-> best_non_mixed[1], suppressed_mixed |-> TRUE]
        ELSE [phase |-> ranked[1][1], suppressed_mixed |-> FALSE]

\* resolve_phase_from_evidence, the precip-flag snow override: whether the
\* selected phase is replaced by snow
ForcePrecipSnowNearOnly(thermo, phase) ==
    /\ thermo.precip_flag_phase = Some(PHASE_SNOW)
    /\ phase # PHASE_SNOW
    /\ thermo.near_transition

ForcePrecipSnowAlways(thermo, phase) ==
    /\ thermo.precip_flag_phase = Some(PHASE_SNOW)
    /\ (thermo.phase = PHASE_SNOW \/ thermo.near_transition)

ForcePrecipSnow(thermo, phase) ==
    /\ thermo.precip_flag_phase = Some(PHASE_SNOW)
    /\ phase # PHASE_SNOW
    /\ (thermo.phase = PHASE_SNOW \/ thermo.near_transition)

\* resolve_phase_from_evidence; `ranked` and `transition_like` are its locals,
\* kept beside the PhaseResolution
resolve_phase_from_evidence(thermo, dual, use_aux_fallback) ==
    LET dual_mixed_support ==
            /\ IsSome(dual)
            /\ Unwrap(dual).phase = PHASE_MIXED
            /\ Unwrap(dual).confidence >= MIXED_DUAL_SUPPORT_CONFIDENCE_MIN
        dual_weight == DualWeight(thermo, Unwrap(dual), use_aux_fallback)
        used_dual == IsSome(dual) /\ dual_weight >= 80000
        injected == IF used_dual
                    THEN add(thermo.scores, Unwrap(dual).phase, RoundDiv(dual_weight * 22, 10))
                    ELSE thermo.scores
        rain_snow_competing ==
            /\ injected.rain >= MIXED_COMPETING_RAIN_SNOW_MIN_SCORE
            /\ injected.snow >= MIXED_COMPETING_RAIN_SNOW_MIN_SCORE
            /\ Abs(injected.rain - injected.snow) <= MIXED_COMPETING_RAIN_SNOW_DELTA_MAX
        scores == PromoteCompeting(thermo, injected, dual_mixed_support)
        ranked == rank_phase_scores(scores)
        transition_like == thermo.near_transition \/ rain_snow_competing
                           \/ dual_mixed_support
        selected == SelectMixed(ranked, transition_like)
        forced_precip_snow == ForcePrecipSnow(thermo, selected.phase)
    IN  [phase              |-> IF forced_precip_snow THEN PHASE_SNOW ELSE selected.phase,
         used_dual          |-> used_dual,
         suppressed_dual    |-> IsSome(dual) /\ ~used_dual,
         suppressed_mixed   |-> selected.suppressed_mixed,
         forced_precip_snow |-> forced_precip_snow,
         ranked             |-> ranked,
         transition_like    |-> transition_like]

\* the phase counters ingest_timestamp keeps while it builds a snapshot
ZeroPhaseDebug ==
    [dual_missing_voxel_count        |-> 0,
     thermo_signal_voxel_count       |-> 0,
     thermo_no_signal_voxel_count    |-> 0,
     dual_adjusted_voxel_count       |-> 0,
     dual_suppressed_voxel_count     |-> 0,
     stale_dual_adjusted_voxel_count |-> 0,
     mixed_suppressed_voxel_count    |-> 0,
     mixed_edge_promoted_voxel_count |-> 0,
     precip_snow_forced_voxel_count  |-> 0]

\* what one iteration of the voxel loop reads: the height of its level, the
\* nearest sample of each auxiliary field, ZDR and RhoHV of the cell and
\* whether the dual-pol bundle is stale or incomplete
VoxelSamples ==
    [voxel_mid_feet   : {3000, 5200, 8000},
     precip           : {None, Some(30), Some(26), Some(70)},
     freezing         : {None, Some(1800), Some(2300)},
     wet_bulb         : {None, Some(-300), Some(27445)},
     surface_temp     : {None, Some(500)},
     bright_band      : {<<None, None>>, <<Some(3), Some(2000)>>},
     rqi              : {None, Some(50)},
     zdr              : {None, Some(100), Some(10), Some(40)},
     rhohv            : {None, Some(990), Some(960), Some(900)},
     use_aux_fallback : BOOLEAN,
     dbz_tenths       : {180}]

Bump(counters, field, when) ==
    IF when THEN [counters EXCEPT ![field] = @ + 1] ELSE counters

\* ingest_timestamp, the body of the voxel loop for one cell at or above
\* STORE_MIN_DBZ_TENTHS
ResolveVoxel ==
    /\ sample # None
    /\ resolved = None
    /\ level_pc = "voxels"
    /\ \E v \in {Unwrap(sample)} :
       \E dual_evidence \in {resolve_dual_pol_evidence(v.zdr, v.rhohv)},
          thermo_evidence \in
              {resolve_thermo_phase(v.voxel_mid_feet, v.precip, v.freezing, v.wet_bulb,
                                    v.surface_temp, v.bright_band[1], v.bright_band[2],
                                    v.rqi)} :
       \E resolution \in {resolve_phase_from_evidence(thermo_evidence, dual_evidence,
                                                      v.use_aux_fallback)} :
       LET thermo_competing ==
               /\ thermo_evidence.scores.rain >= MIXED_COMPETING_RAIN_SNOW_MIN_SCORE
               /\ thermo_evidence.scores.snow >= MIXED_COMPETING_RAIN_SNOW_MIN_SCORE
               /\ Abs(thermo_evidence.scores.rain - thermo_evidence.scores.snow)
                    <= MIXED_COMPETING_RAIN_SNOW_DELTA_MAX + 450000
           dual_mixed_candidate ==
               /\ IsSome(dual_evidence)
               /\ Unwrap(dual_evidence).phase = PHASE_MIXED
               /\ Unwrap(dual_evidence).confidence >= 350000
           transition_candidate ==
               /\ ~resolution.forced_precip_snow
               /\ (thermo_evidence.near_transition \/ thermo_competing
                   \/ dual_mixed_candidate)
           c1 == Bump(phase_debug, "dual_missing_voxel_count", dual_evidence = None)
           c2 == Bump(c1, "thermo_signal_voxel_count", thermo_evidence.signal_count > 0)
           c3 == Bump(c2, "thermo_no_signal_voxel_count",
                      thermo_evidence.signal_count = 0)
           c4 == Bump(c3, "dual_adjusted_voxel_count", resolution.used_dual)
           c5 == Bump(c4, "stale_dual_adjusted_voxel_count",
                      resolution.used_dual /\ v.use_aux_fallback)
           c6 == Bump(c5, "dual_suppressed_voxel_count", resolution.suppressed_dual)
           c7 == Bump(c6, "mixed_suppressed_voxel_count", resolution.suppressed_mixed)
           c8 == Bump(c7, "precip_snow_forced_voxel_count",
                      resolution.forced_precip_snow)
       IN  /\ resolved' = Some([thermo |-> thermo_evidence, dual |-> dual_evidence,
                                resolution |-> resolution])
           /\ phase_debug' = c8
           /\ level_voxels' = Append(level_voxels,
                                     [row |-> 0, col |-> 0, dbz_tenths |-> v.dbz_tenths,
                                      phase |-> resolution.phase,
                                      transition_candidate |-> transition_candidate])
    /\ UNCHANGED <<ctlvars, scan, wire, sample, level_pc,
                   fetched_body, traffic, store, push>>

\* HasOppositeNeighbor that also takes a MIXED neighbour for an opposite one
HasOtherPhaseNeighbor(records, position_to_index, grid_nx, grid_ny, idx) ==
    \E row_delta \in {-1, 0, 1}, col_delta \in {-1, 0, 1} :
        LET neighbor_row == records[idx].row + row_delta
            neighbor_col == records[idx].col + col_delta
            key == neighbor_row * grid_nx + neighbor_col
        IN  /\ ~(row_delta = 0 /\ col_delta = 0)
            /\ neighbor_row >= 0 /\ neighbor_col >= 0
            /\ neighbor_row < grid_ny /\ neighbor_col < grid_nx
            /\ key \in DOMAIN position_to_index
            /\ records[position_to_index[key]].phase # records[idx].phase

\* promote_mixed_transition_edges, the search of the 8 surrounding cells
HasOppositeNeighborOrthogonal(records, position_to_index, grid_nx, grid_ny, idx) ==
    LET opposite_phase == IF records[idx].phase = PHASE_RAIN THEN PHASE_SNOW
                          ELSE PHASE_RAIN
    IN  \E row_delta \in {-1, 0, 1}, col_delta \in {-1, 0, 1} :
            LET neighbor_row == records[idx].row + row_delta
                neighbor_col == records[idx].col + col_delta
                key == neighbor_row * grid_nx + neighbor_col
            IN  /\ (row_delta = 0) # (col_delta = 0)
                /\ neighbor_row >= 0 /\ neighbor_col >= 0
                /\ neighbor_row < grid_ny /\ neighbor_col < grid_nx
                /\ key \in DOMAIN position_to_index
                /\ records[position_to_index[key]].phase = opposite_phase

HasOppositeNeighbor(records, position_to_index, grid_nx, grid_ny, idx) ==
    LET opposite_phase == IF records[idx].phase = PHASE_RAIN THEN PHASE_SNOW
                          ELSE PHASE_RAIN
    IN  \E row_delta \in {-1, 0, 1}, col_delta \in {-1, 0, 1} :
            LET neighbor_row == records[idx].row + row_delta
                neighbor_col == records[idx].col + col_delta
                key == neighbor_row * grid_nx + neighbor_col
            IN  /\ ~(row_delta = 0 /\ col_delta = 0)
                /\ neighbor_row >= 0 /\ neighbor_col >= 0
                /\ neighbor_row < grid_ny /\ neighbor_col < grid_nx
                /\ key \in DOMAIN position_to_index
                /\ records[position_to_index[key]].phase = opposite_phase

\* promote_mixed_transition_edges: the records after the pass and the count
\* it returns
promote_mixed_transition_edges(records, grid_nx, grid_ny) ==
    IF Len(records) = 0 \/ grid_nx = 0 \/ grid_ny = 0
    THEN [records |-> records, promoted |-> 0]
    ELSE LET KeyOf(i) == records[i].row * grid_nx + records[i].col
             \* a later record of the same key replaces the earlier one
             position_to_index ==
                 [key \in {KeyOf(i) : i \in 1..Len(records)} |->
                      CHOOSE i \in 1..Len(records) :
                          /\ KeyOf(i) = key
                          /\ \A j \in 1..Len(records) : KeyOf(j) = key => j <= i]
             promote_indices ==
                 {idx \in 1..Len(records) :
                      /\ records[idx].transition_candidate
                      /\ records[idx].phase \in {PHASE_RAIN, PHASE_SNOW}
                      /\ HasOppositeNeighbor(records, position_to_index,
                                             grid_nx, grid_ny, idx)}
         IN  [records  |-> [i \in 1..Len(records) |->
                              IF i \in promote_indices
                              THEN [records[i] EXCEPT !.phase = PHASE_MIXED]
                              ELSE records[i]],
              promoted |-> Cardinality(promote_indices)]

\* the levels the post-pass is run on: up to MaxLevelVoxels voxels of an
\* EdgeNx x EdgeNy grid in the row-major order of the voxel loop
EdgeCells == {<<row, col>> : row \in 0..(EdgeNy - 1), col \in 0..(EdgeNx - 1)}
VoxelKinds == {PHASE_RAIN, PHASE_MIXED, PHASE_SNOW} \X BOOLEAN
LevelOf(cells, kind) ==
    LET Place(cell) == 1 + Cardinality({other \in cells :
                            other[1] * EdgeNx + other[2] < cell[1] * EdgeNx + cell[2]})
    IN  [i \in 1..Cardinality(cells) |->
            LET cell == CHOOSE c \in cells : Place(c) = i
            IN  [row |-> cell[1], col |-> cell[2], dbz_tenths |-> 180,
                 phase |-> kind[cell][1], transition_candidate |-> kind[cell][2]]]

\* ingest_timestamp, the post-pass over the voxels of one level
PromoteLevel(grid_nx, grid_ny) ==
    /\ level_pc = "voxels"
    /\ sample = None \/ resolved # None
    /\ LET pass == promote_mixed_transition_edges(level_voxels, grid_nx, grid_ny)
       IN  /\ level_voxels' = pass.records
           /\ phase_debug' = [phase_debug EXCEPT !.mixed_edge_promoted_voxel_count =
                                                     @ + pass.promoted]
    /\ level_pc' = "promoted"
    /\ UNCHANGED <<ctlvars, scan, wire, sample, resolved,
                   fetched_body, traffic, store, push>>

\* promote_mixed_transition_edges applied once more to the voxels of a level
\* that has been through its post-pass
PromoteLevelAgain(grid_nx, grid_ny) ==
    /\ level_pc = "promoted"
    /\ LET pass == promote_mixed_transition_edges(level_voxels, grid_nx, grid_ny)
       IN  /\ level_voxels' = pass.records
           /\ phase_debug' = [phase_debug EXCEPT !.mixed_edge_promoted_voxel_count =
                                                     @ + pass.promoted]
    /\ level_pc' = "promoted twice"
    /\ UNCHANGED <<ctlvars, scan, wire, sample, resolved,
                   fetched_body, traffic, store, push>>

\* ------------------------------------------------------------ traffic proxy
\* (services/runtime-rs/src/traffic_api.rs; rust-api/src/traffic.rs decodes
\* and batches the same way)
\* A decompressed binCraft payload is [len, stride, version, slots]: its
\* length, the u32 at offset 8, the u32 at offset 40 and the complete records
\* that follow the header record.  A record is [position_valid, lat, lon,
\* raw_hex, w4, w6, w108, airground]: bit 64 of byte 73, the i32 at 12, 8 and
\* 0, the u16 at 4 and 6 (together the s32 at 4), the i32 at 108 and the low
\* nibble of byte 68.  Seen times are in tenths of a second.
TRACE_HISTORY_MAX_AIRCRAFT == 80
TRACE_HISTORY_BATCH_SIZE == 8
BINCRAFT_MIN_STRIDE_BYTES == 112
BINCRAFT_MAX_STRIDE_BYTES == 256
BINCRAFT_S32_SEEN_VERSION == 20240218
DEFAULT_LIMIT == 250
MAX_LIMIT == 800
DEFAULT_RADIUS_NM == 80

\* Config::traffic_base_urls: the primary, then the fallbacks, without the
\* empty ones and without repetitions
traffic_base_urls_repeating(cfg) ==
    SelectSeq(<<cfg.adsbx_primary_base_url>> \o cfg.adsbx_fallback_base_urls,
              LAMBDA candidate : candidate # "")

traffic_base_urls(cfg) ==
    LET candidates == <<cfg.adsbx_primary_base_url>> \o cfg.adsbx_fallback_base_urls
        RECURSIVE Dedupe(_, _)
        Dedupe(i, deduped) ==
            IF i > Len(candidates) THEN deduped
            ELSE IF candidates[i] = ""
                      \/ \E k \in 1..Len(deduped) : deduped[k] = candidates[i]
            THEN Dedupe(i + 1, deduped)
            ELSE Dedupe(i + 1, Append(deduped, candidates[i]))
    IN  Dedupe(1, << >>)

\* normalize_seen_seconds_value
normalize_seen_seconds_value(value) ==
    IF value < 0 \/ value > 864000 THEN None ELSE Some(value)

\* last_seen_seconds with None read as f64::INFINITY
SeenOrInfinity(aircraft) ==
    IF IsSome(aircraft.last_seen_seconds) THEN Unwrap(aircraft.last_seen_seconds)
    ELSE 2147483647

\* decode_bincraft_aircraft, the insertion of one decoded record into by_hex
InsertAircraftLast(by_hex, aircraft) ==
    MapInsert(by_hex, aircraft.hex, aircraft)

InsertAircraft(by_hex, aircraft) ==
    IF aircraft.hex \in DOMAIN by_hex
    THEN IF SeenOrInfinity(aircraft) < SeenOrInfinity(by_hex[aircraft.hex])
         THEN MapInsert(by_hex, aircraft.hex, aircraft)
         ELSE by_hex
    ELSE MapInsert(by_hex, aircraft.hex, aircraft)

\* decode_bincraft_aircraft, whether the loop decodes the record or skips it
SlotIsValid(u8) ==
    /\ u8.position_valid
    /\ u8.lat >= -90000000 /\ u8.lat <= 90000000
    /\ u8.lon >= -180000000 /\ u8.lon <= 180000000
    /\ u8.raw_hex % 16777216 # 0

\* decode_bincraft_aircraft, the TrafficAircraft of one record (hex is the
\* pair of the temporary flag and the 24-bit address that format! prints)
SlotAircraft(u8, version) ==
    LET seen_seconds == IF version >= BINCRAFT_S32_SEEN_VERSION
                        THEN u8.w4 + 65536 * u8.w6 ELSE u8.w6
        seen_pos_seconds == IF version >= BINCRAFT_S32_SEEN_VERSION
                            THEN u8.w108 ELSE u8.w4
        from_pos == normalize_seen_seconds_value(seen_pos_seconds)
    IN  [hex               |-> <<(u8.raw_hex \div 16777216) % 2 = 1,
                                 u8.raw_hex % 16777216>>,
         lat               |-> u8.lat,
         lon               |-> u8.lon,
         is_on_ground      |-> u8.airground = 1,
         last_seen_seconds |-> IF IsSome(from_pos) THEN from_pos
                               ELSE normalize_seen_seconds_value(seen_seconds)]

\* decode_bincraft_aircraft: an error, or by_hex, whose values are the list
decode_bincraft_aircraft(payload) ==
    LET RECURSIVE DecodeSlots(_, _, _)
        DecodeSlots(decoded, i, by_hex) ==
            IF i > Len(decoded.slots) THEN by_hex
            ELSE IF ~SlotIsValid(decoded.slots[i])
            THEN DecodeSlots(decoded, i + 1, by_hex)
            ELSE DecodeSlots(decoded, i + 1,
                             InsertAircraft(by_hex,
                                            SlotAircraft(decoded.slots[i],
                                                         decoded.version)))
    IN
    IF ~payload.zstd_ok THEN [ok |-> FALSE, error |-> "zstd"]
    ELSE IF payload.decoded.len < 44 THEN [ok |-> FALSE, error |-> "too small"]
    ELSE IF \/ payload.decoded.stride < BINCRAFT_MIN_STRIDE_BYTES
            \/ payload.decoded.stride > BINCRAFT_MAX_STRIDE_BYTES
            \/ payload.decoded.stride % 4 # 0
    THEN [ok |-> FALSE, error |-> "stride"]
    ELSE [ok |-> TRUE, by_hex |-> DecodeSlots(payload.decoded, 1, << >>)]

\* the records a payload is built from, and a payload of the given records:
\* a well-formed one, or one with a short tail after the last record
SlotSamples ==
    {[position_valid |-> p[1], lat |-> p[2], lon |-> -122000000, raw_hex |-> h,
      w4 |-> s[1], w6 |-> s[2], w108 |-> s[3], airground |-> 0] :
        p \in {<<TRUE, 45000000>>, <<FALSE, 45000000>>, <<TRUE, 91000000>>},
        h \in {0, 1, 16777217},
        s \in {<<5, 0, -1>>, <<20, 0, 7>>, <<5, 14, -1>>, <<20, 3, 900000>>}}

PayloadOf(slots, stride, version, tail) ==
    [zstd_ok |-> TRUE,
     decoded |-> [len |-> stride * (1 + Len(slots)) + tail, stride |-> stride,
                  version |-> version, slots |-> slots]]

Payloads ==
    {PayloadOf(slots, h[1], h[2], h[3]) :
        slots \in UNION {[1..n -> SlotSamples] : n \in 0..MaxSlots},
        h \in {<<112, 20240218, 0>>, <<116, 20230101, 40>>}}
    \cup {PayloadOf(<< >>, 110, 20240218, 0), PayloadOf(<< >>, 0, 0, 20),
          [zstd_ok |-> FALSE]}

\* the orders HashMap::into_values can yield
Orders(keys) ==
    {order \in [1..Cardinality(keys) -> keys] :
        \A i, j \in 1..Cardinality(keys) : i # j => order[i] # order[j]}

\* decode_bincraft_aircraft applied to the body fetch_bincraft received
DecodePayload ==
    /\ fetched_body # None
    /\ traffic = None
    /\ LET result == decode_bincraft_aircraft(Unwrap(fetched_body))
       IN  IF result.ok
           THEN \E order \in Orders(DOMAIN result.by_hex) :
                    traffic' = [pc |-> "decoded", ok |-> TRUE,
                                aircraft |-> [k \in 1..Len(order) |->
                                                 result.by_hex[order[k]]]]
           ELSE traffic' = [pc |-> "decoded", ok |-> FALSE, error |-> result.error]
    /\ UNCHANGED <<ctlvars, scan, wire, sample, resolved, phase_debug, level_voxels,
                   level_pc, fetched_body,
                   store, push>>

\* distance_nm between two points of one meridian, where the haversine
\* formula is EARTH_RADIUS_NM * |lat_b - lat_a| in radians: 60.04 nm a degree
distance_nm(lat_a, lon_a, lat_b, lon_b) ==
    RoundDiv((Abs(lat_b - lat_a) \div 100) * 6004, 1000000)

\* traffic_adsbx, from the decoded list (by_hex.into_values() in the order
\* `order`) to the list of the response: retain, stable sort by ascending
\* last_seen_seconds with None last, truncate
ResponseList(by_hex, order, query) ==
    LET SortBySeen(aircraft) ==
            LET Place(i) ==
                    1 + Cardinality({j \in 1..Len(aircraft) :
                          \/ SeenOrInfinity(aircraft[j]) < SeenOrInfinity(aircraft[i])
                          \/ SeenOrInfinity(aircraft[j]) = SeenOrInfinity(aircraft[i])
                             /\ j < i})
            IN  [k \in 1..Len(aircraft) |->
                    aircraft[CHOOSE i \in 1..Len(aircraft) : Place(i) = k]]
        listed == [k \in 1..Len(order) |-> by_hex[order[k]]]
        Retained(candidate) ==
            /\ distance_nm(Unwrap(query.lat), Unwrap(query.lon),
                           candidate.lat, candidate.lon) <= query.radius_nm
            /\ ~query.hide_ground \/ ~candidate.is_on_ground
        sorted == SortBySeen(SelectSeq(listed, Retained))
        limit == Min(Max(IF IsSome(query.limit) THEN Unwrap(query.limit)
                         ELSE DEFAULT_LIMIT, 1), MAX_LIMIT)
    IN  SubSeq(sorted, 1, Min(Len(sorted), limit))

\* the handler before it runs, for a configuration, a query and the set of
\* hexes the upstream serves a recent trace for
IdleTraffic(cfg, query, traced) ==
    [pc |-> "idle", cfg |-> cfg, query |-> query, traced |-> traced,
     base_urls |-> << >>, contacted |-> << >>, errors |-> << >>, base_url |-> "",
     aircraft |-> << >>, batch_start |-> 0, in_flight |-> {}, requested |-> {},
     results |-> {}, history_by_hex |-> {}, response |-> None]

\* traffic_adsbx up to its first await: 400 on a missing or invalid lat/lon,
\* otherwise the candidates of fetch_adsbx_traffic (with no candidate at all
\* the loop is empty and the error payload is the response)
TrafficRequest ==
    /\ traffic # None
    /\ traffic.pc = "idle"
    /\ LET q == traffic.query
           lat_ok == IsSome(q.lat) /\ Unwrap(q.lat) >= -90000000
                     /\ Unwrap(q.lat) <= 90000000
           lon_ok == IsSome(q.lon) /\ Unwrap(q.lon) >= -180000000
                     /\ Unwrap(q.lon) <= 180000000
           urls == traffic_base_urls(traffic.cfg)
       IN  traffic' =
             IF ~lat_ok \/ ~lon_ok
             THEN [traffic EXCEPT !.pc = "done", !.response = Some([status |-> 400])]
             ELSE IF Len(urls) = 0
             THEN [traffic EXCEPT !.pc = "done", !.base_urls = urls,
                                  !.response = Some([status |-> 200, kind |-> "error",
                                                     error |-> << >>])]
             ELSE [traffic EXCEPT !.pc = "fetch", !.base_urls = urls]
    /\ UNCHANGED <<ctlvars, scan, wire, sample, resolved, phase_debug, level_voxels,
                   level_pc, fetched_body,
                   store, push>>

\* fetch_adsbx_traffic, one turn of its loop: fetch_bincraft on the next base
\* URL.  `fetched` is [fetch_error], a transport, status, content-type or
\* empty-body error, or the body received.  The last failure makes the error payload, a success
\* the response list, which is the response when no history is asked for.
FetchCandidate(fetched) ==
    /\ traffic # None
    /\ traffic.pc = "fetch"
    /\ Len(traffic.contacted) < Len(traffic.base_urls)
    /\ LET base_url == traffic.base_urls[Len(traffic.contacted) + 1]
           result == IF "fetch_error" \in DOMAIN fetched
                     THEN [ok |-> FALSE, error |-> fetched.fetch_error]
                     ELSE decode_bincraft_aircraft(fetched)
           contacted == Append(traffic.contacted, [base_url |-> base_url,
                                                   ok |-> result.ok])
       IN  IF ~result.ok
           THEN LET errors == Append(traffic.errors, <<base_url, result.error>>)
                IN  traffic' =
                         IF Len(contacted) < Len(traffic.base_urls)
                         THEN [traffic EXCEPT !.contacted = contacted,
                                              !.errors = errors]
                         ELSE [traffic EXCEPT !.contacted = contacted,
                                              !.errors = errors, !.pc = "done",
                                              !.response =
                                                 Some([status |-> 200, kind |-> "error",
                                                       error |-> errors])]
           ELSE \E order \in Orders(DOMAIN result.by_hex) :
                LET aircraft == ResponseList(result.by_hex, order, traffic.query)
                IN  traffic' =
                         IF traffic.query.history_minutes > 0
                         THEN [traffic EXCEPT !.contacted = contacted,
                                              !.base_url = base_url,
                                              !.aircraft = aircraft, !.pc = "traces"]
                         ELSE [traffic EXCEPT !.contacted = contacted,
                                              !.base_url = base_url,
                                              !.aircraft = aircraft, !.pc = "done",
                                              !.response =
                                                 Some([status |-> 200, kind |-> "success",
                                                       source |-> base_url,
                                                       aircraft |-> aircraft,
                                                       history_by_hex |-> {}])]
    /\ UNCHANGED <<ctlvars, scan, wire, sample, resolved, phase_debug, level_voxels,
                   level_pc, fetched_body,
                   store, push>>

\* join_all(futures).await returns once no future of the batch is pending
CanStartBatchAnytime(in_flight) == TRUE

CanStartBatch(in_flight) == in_flight = {}

\* fetch_recent_trace_history, from the return of one join_all (or the entry
\* of the function) to the next: the results are inserted and the futures of
\* the next chunk are made and polled
StartTraceBatch ==
    /\ traffic # None
    /\ traffic.pc = "traces"
    /\ CanStartBatch(traffic.in_flight)
    /\ LET limited_aircraft == Min(Len(traffic.aircraft), TRACE_HISTORY_MAX_AIRCRAFT)
           batch == (traffic.batch_start + 1)..
                        Min(traffic.batch_start + TRACE_HISTORY_BATCH_SIZE,
                            limited_aircraft)
       IN  /\ traffic.batch_start < limited_aircraft
           /\ traffic' = [traffic EXCEPT
                          !.history_by_hex =
                              traffic.history_by_hex
                              \cup {traffic.aircraft[i].hex : i \in traffic.results},
                          !.results = {},
                          !.in_flight = traffic.in_flight \cup batch,
                          !.requested = traffic.requested \cup batch,
                          !.batch_start = traffic.batch_start + Cardinality(batch)]
    /\ UNCHANGED <<ctlvars, scan, wire, sample, resolved, phase_debug, level_voxels,
                   level_pc, fetched_body,
                   store, push>>

\* fetch_trace_history_for_hex completes for aircraft i of the list: with
\* points when the upstream serves a trace of it, with none on any failure
TraceDone(i) ==
    /\ traffic # None
    /\ traffic.pc = "traces"
    /\ i \in traffic.in_flight
    /\ traffic' = [traffic EXCEPT
                      !.in_flight = traffic.in_flight \ {i},
                      !.results = IF traffic.aircraft[i].hex \in traffic.traced
                                  THEN traffic.results \cup {i}
                                  ELSE traffic.results]
    /\ UNCHANGED <<ctlvars, scan, wire, sample, resolved, phase_debug, level_voxels,
                   level_pc, fetched_body,
                   store, push>>

\* fetch_recent_trace_history after its last join_all, and traffic_adsbx
\* after it has returned
TrafficRespond ==
    /\ traffic # None
    /\ traffic.pc = "traces"
    /\ traffic.in_flight = {}
    /\ traffic.batch_start >= Min(Len(traffic.aircraft), TRACE_HISTORY_MAX_AIRCRAFT)
    /\ LET history_by_hex ==
               traffic.history_by_hex
               \cup {traffic.aircraft[i].hex : i \in traffic.results}
       IN  traffic' = [traffic EXCEPT
                          !.history_by_hex = history_by_hex,
                          !.results = {},
                          !.pc = "done",
                          !.response = Some([status |-> 200, kind |-> "success",
                                             source |-> traffic.base_url,
                                             aircraft |-> traffic.aircraft,
                                             history_by_hex |-> history_by_hex])]
    /\ UNCHANGED <<ctlvars, scan, wire, sample, resolved, phase_debug, level_voxels,
                   level_pc, fetched_body,
                   store, push>>

\* --------------------------------------------------------------- scan store
\* (services/runtime-rs/src/storage.rs)
\* The scans directory is a set of files [name, ext, len]: `name` is the
\* timestamp in front of the extension, `ext` is "zst" for {ts}.avsn.zst and
\* "tmp" for a {ts}.tmp that a failed rename left behind.  `deleted` and
\* `failed` are the files the last run of apply_retention removed and failed
\* to remove.
ZstFiles(files) == {f \in files : f.ext = "zst"}

\* files.sort_by(|left, right| left.0.cmp(&right.0))
SortByPathDescending(files) ==
    [k \in 1..Cardinality(files) |->
        CHOOSE f \in files : Cardinality({g \in files : g.name > f.name}) = k - 1]

SortByPath(files) ==
    [k \in 1..Cardinality(files) |->
        CHOOSE f \in files : Cardinality({g \in files : g.name < f.name}) = k - 1]

\* the sum apply_retention makes while it reads the directory
TotalBytes(files) ==
    LET listed == SortByPath(ZstFiles(files))
    IN  SumSeq([k \in 1..Len(listed) |-> listed[k].len])

\* persist_snapshot: the snapshot is written to {ts}.tmp and renamed to
\* {ts}.avsn.zst, then apply_retention reads the directory, sums the *.zst
\* files and, over budget, sorts them for its loop
PersistSnapshot(timestamp, len) ==
    /\ store # None
    /\ store.pc = "idle"
    /\ store.persists < MaxPersists
    /\ LET files == {f \in store.files : ~(f.name = timestamp /\ f.ext = "zst")}
                    \cup {[name |-> timestamp, ext |-> "zst", len |-> len]}
           total_bytes == TotalBytes(files)
       IN  store' =
             IF total_bytes <= store.retention_bytes
             THEN [store EXCEPT !.files = files, !.persists = store.persists + 1,
                                !.total_bytes = total_bytes, !.queue = << >>,
                                !.deleted = {}, !.failed = {}]
             ELSE [store EXCEPT !.files = files, !.persists = store.persists + 1,
                                !.total_bytes = total_bytes,
                                !.queue = SortByPath(ZstFiles(files)),
                                !.deleted = {}, !.failed = {}, !.pc = "retain"]
    /\ UNCHANGED <<ctlvars, scan, wire, sample, resolved, phase_debug, level_voxels,
                   level_pc, fetched_body, traffic, push>>

\* apply_retention, one turn of the loop over the sorted files: remove_file
\* succeeds or fails; the loop ends at the end of the list or, before the
\* next removal, once total_bytes is within the budget
RetentionRemove(removed) ==
    /\ store # None
    /\ store.pc = "retain"
    /\ LET file == Head(store.queue)
           total_bytes == IF removed THEN store.total_bytes - file.len
                          ELSE store.total_bytes
           queue == Tail(store.queue)
       IN  store' = [store EXCEPT
                        !.files = IF removed THEN store.files \ {file} ELSE store.files,
                        !.deleted = IF removed THEN store.deleted \cup {file.name}
                                    ELSE store.deleted,
                        !.failed = IF removed THEN store.failed
                                   ELSE store.failed \cup {file.name},
                        !.total_bytes = total_bytes,
                        !.queue = queue,
                        !.pc = IF queue = << >> \/ total_bytes <= store.retention_bytes
                               THEN "idle" ELSE "retain"]
    /\ UNCHANGED <<ctlvars, scan, wire, sample, resolved, phase_debug, level_voxels,
                   level_pc, fetched_body, traffic, push>>

\* ------------------------------------------------------------ specification
\* main: the slot holds what load_latest_snapshot found, the maps are empty
Init ==
    /\ now = 0
    /\ latest \in {None, Some([timestamp |-> 1, gen |-> 0])}
    /\ pending = << >>
    /\ recent_timestamps = {}
    /\ persisted = {}
    /\ enq = [e \in Enqueuers |-> IdleEnq]
    /\ sched = IdleSched
    /\ readers = {}
    /\ vol = [h \in Handlers |-> IdleVol]
    /\ ingests = 0
    /\ failures = 0
    /\ scan = None
    /\ wire = None
    /\ sample = None
    /\ resolved = None
    /\ phase_debug = ZeroPhaseDebug
    /\ level_voxels = << >>
    /\ level_pc = "voxels"
    /\ fetched_body = None
    /\ traffic = None
    /\ store = None
    /\ push = None

\* The scheduler loop, one step
SchedStep ==
    \/ SchedSelect
    \/ \E f \in FanOuts : SchedIngest(f)
    \/ \E written \in BOOLEAN : SchedPersist(written)
    \/ SchedPublish
    \/ SchedRecord
    \/ SchedPrune
    \/ SchedFail

\* One step of a loop that calls enqueue_timestamp
EnqueueStep(e) ==
    \/ \E timestamp \in Timestamps : EnqueueReadLatest(e, timestamp)
    \/ EnqueueCheckRecent(e)
    \/ EnqueueInsert(e)

\* The background workers when no push queue is configured: the bootstrap
\* loop and the scheduler loop
Next ==
    \/ EnqueueStep("bootstrap")
    \/ SchedStep
    \/ Tick

Spec == Init /\ [][Next]_vars

\* The HTTP surface next to the scheduler loop fed by the bootstrap loop
NextQuery ==
    \/ EnqueueStep("bootstrap")
    \/ SchedStep
    \/ VolumeBadRequest("volume")
    \/ VolumeReadLock("volume")
    \/ VolumeBuild("volume")
    \/ VolumeRespond("volume")
    \/ MetaReadLock("meta")
    \/ MetaRespond("meta")

SpecQuery == Init /\ [][NextQuery]_vars

\* the volume engine on its own: one ingest, then queries against its snapshot
NextVolume ==
    \/ \E scene \in Scenes, cfg_tile_size \in TileSizeConfigs :
           IngestScan(scene, cfg_tile_size)
    \/ \E query \in Queries : Volume(query)
    \/ VolumeSent

SpecVolume == Init /\ [][NextVolume]_vars

\* the phase resolver on its own: one iteration of the voxel loop on a level
\* that holds no voxel yet, then the post-pass of that level
InitPhase ==
    /\ now = 0
    /\ latest = None
    /\ pending = << >>
    /\ recent_timestamps = {}
    /\ persisted = {}
    /\ enq = [e \in Enqueuers |-> IdleEnq]
    /\ sched = IdleSched
    /\ readers = {}
    /\ vol = [h \in Handlers |-> IdleVol]
    /\ ingests = 0
    /\ failures = 0
    /\ scan = None
    /\ wire = None
    /\ sample \in {Some(v) : v \in VoxelSamples}
    /\ resolved = None
    /\ phase_debug = ZeroPhaseDebug
    /\ level_voxels = << >>
    /\ level_pc = "voxels"
    /\ fetched_body = None
    /\ traffic = None
    /\ store = None
    /\ push = None

NextPhase ==
    \/ ResolveVoxel
    \/ PromoteLevel(EdgeNx, EdgeNy)

SpecPhase == InitPhase /\ [][NextPhase]_vars

\* the post-pass on its own: a level of voxels the loop has resolved
InitEdges ==
    /\ now = 0
    /\ latest = None
    /\ pending = << >>
    /\ recent_timestamps = {}
    /\ persisted = {}
    /\ enq = [e \in Enqueuers |-> IdleEnq]
    /\ sched = IdleSched
    /\ readers = {}
    /\ vol = [h \in Handlers |-> IdleVol]
    /\ ingests = 0
    /\ failures = 0
    /\ scan = None
    /\ wire = None
    /\ sample = None
    /\ resolved = None
    /\ phase_debug = ZeroPhaseDebug
    /\ \E cells \in {S \in SUBSET EdgeCells : Cardinality(S) <= MaxLevelVoxels} :
           \E kind \in [cells -> VoxelKinds] : level_voxels = LevelOf(cells, kind)
    /\ level_pc = "voxels"
    /\ fetched_body = None
    /\ traffic = None
    /\ store = None
    /\ push = None

NextEdges == PromoteLevel(EdgeNx, EdgeNy)

SpecEdges == InitEdges /\ [][NextEdges]_vars

\* the post-pass, and a second application of it to its own result
NextEdgesTwice ==
    \/ PromoteLevel(EdgeNx, EdgeNy)
    \/ PromoteLevelAgain(EdgeNx, EdgeNy)

SpecEdgesTwice == InitEdges /\ [][NextEdgesTwice]_vars

\* the MRMS service at rest, for the specifications of the runtime service
MrmsAtRest ==
    /\ now = 0
    /\ latest = None
    /\ pending = << >>
    /\ recent_timestamps = {}
    /\ persisted = {}
    /\ enq = [e \in Enqueuers |-> IdleEnq]
    /\ sched = IdleSched
    /\ readers = {}
    /\ vol = [h \in Handlers |-> IdleVol]
    /\ ingests = 0
    /\ failures = 0
    /\ scan = None
    /\ wire = None
    /\ sample = None
    /\ resolved = None
    /\ phase_debug = ZeroPhaseDebug
    /\ level_voxels = << >>
    /\ level_pc = "voxels"

\* decode_bincraft_aircraft on every modelled body
InitDecode ==
    /\ MrmsAtRest
    /\ fetched_body \in {Some(p) : p \in Payloads}
    /\ traffic = None
    /\ store = None
    /\ push = None

SpecDecode == InitDecode /\ [][DecodePayload]_vars

\* /traffic: the bodies an upstream answers with (undecodable, or two records
\* of aircraft at 45N 122W, the first seen 0.7 s ago, the second 0.5 s ago
\* with no address, the same address or another), then the configurations
\* (an empty primary, repeated fallbacks) and the queries
TrafficBodies ==
    {[zstd_ok |-> FALSE]}
    \cup {PayloadOf(<<first, second>>, 112, 20240218, 0) :
            first \in {s \in SlotSamples : /\ s.position_valid /\ s.lat = 45000000
                                           /\ s.raw_hex = 1 /\ s.w108 = 7},
            second \in {s \in SlotSamples : /\ s.position_valid /\ s.lat = 45000000
                                            /\ s.w4 = 5 /\ s.w6 = 0}}

InitTraffic ==
    /\ MrmsAtRest
    /\ fetched_body = None
    /\ \E primary \in {"a", ""},
          fallbacks \in {<< >>, <<"b">>, <<"a", "b">>, <<"b", "c", "b">>},
          lat \in {None, Some(45000000), Some(47000000), Some(95000000)},
          limit \in {None, Some(1)},
          history_minutes \in {0, 10},
          traced \in {{}, {<<FALSE, 1>>}} :
           traffic = IdleTraffic([adsbx_primary_base_url |-> primary,
                                  adsbx_fallback_base_urls |-> fallbacks],
                                 [lat |-> lat, lon |-> Some(-122000000),
                                  radius_nm |-> DEFAULT_RADIUS_NM, limit |-> limit,
                                  history_minutes |-> history_minutes,
                                  hide_ground |-> FALSE],
                                 traced)
    /\ store = None
    /\ push = None

NextTraffic ==
    \/ TrafficRequest
    \/ \E fetched \in {[fetch_error |-> e] : e \in {"send", "HTTP status",
                                                      "content-type", "Empty response"}}
                      \cup TrafficBodies : FetchCandidate(fetched)
    \/ StartTraceBatch
    \/ \E i \in 1..MaxSlots : TraceDone(i)
    \/ TrafficRespond

SpecTraffic == InitTraffic /\ [][NextTraffic]_vars

\* fetch_recent_trace_history on its own: the handler with a response list of
\* n aircraft (sorted, one hex each) at the call, for an upstream that serves
\* a trace of no aircraft, of every aircraft or of every second one
InitTrace ==
    /\ MrmsAtRest
    /\ fetched_body = None
    /\ \E n \in {0, 5, TRACE_HISTORY_BATCH_SIZE, 17, MaxAircraft}, every \in {0, 1, 2} :
           traffic =
             [IdleTraffic([adsbx_primary_base_url |-> "a",
                           adsbx_fallback_base_urls |-> << >>],
                          [lat |-> Some(45000000), lon |-> Some(-122000000),
                           radius_nm |-> DEFAULT_RADIUS_NM, limit |-> None,
                           history_minutes |-> 10, hide_ground |-> FALSE],
                          {<<FALSE, h>> : h \in {h \in 1..n : every > 0 /\ h % every = 0}})
              EXCEPT !.pc = "traces", !.base_urls = <<"a">>, !.base_url = "a",
                     !.contacted = <<[base_url |-> "a", ok |-> TRUE]>>,
                     !.aircraft = [i \in 1..n |->
                                      [hex |-> <<FALSE, i>>, lat |-> 45000000,
                                       lon |-> -122000000, is_on_ground |-> FALSE,
                                       last_seen_seconds |-> Some(i)]]]
    /\ store = None
    /\ push = None

NextTrace ==
    \/ StartTraceBatch
    \/ \E i \in 1..MaxAircraft : TraceDone(i)
    \/ TrafficRespond

SpecTrace == InitTrace /\ [][NextTrace]_vars


\* the scans directory as an earlier run left it (any snapshots, possibly a
\* stray {ts}.tmp) and a retention budget, then snapshots being persisted
InitStore ==
    /\ MrmsAtRest
    /\ fetched_body = None
    /\ traffic = None
    /\ push = None
    /\ \E lens \in [1..MaxStoredTimestamp -> {0, 1, 2, 3}], stray \in BOOLEAN,
          retention_bytes \in {2, 4} :
           store = [retention_bytes |-> retention_bytes,
                    files |-> {[name |-> t, ext |-> "zst", len |-> lens[t]] :
                                  t \in {t \in 1..MaxStoredTimestamp : lens[t] > 0}}
                              \cup (IF stray
                                    THEN {[name |-> 1, ext |-> "tmp", len |-> 3]}
                                    ELSE {}),
                    pc |-> "idle", queue |-> << >>, total_bytes |-> 0,
                    deleted |-> {}, failed |-> {}, persists |-> 0]

NextStore ==
    \/ \E timestamp \in 1..MaxStoredTimestamp, len \in {1, 2, 5} :
           PersistSnapshot(timestamp, len)
    \/ \E removed \in BOOLEAN : RetentionRemove(removed)

SpecStore == InitStore /\ [][NextStore]_vars

\* one timestamp enqueued once, at time 0, whose every ingest fails:
\* ingest_timestamp returns Err, and time passes
IngestFails ==
    /\ sched.pc = "ingest"
    /\ failures < MaxRetryFailures
    /\ failures' = failures + 1
    /\ sched' = [sched EXCEPT !.pc = "failed"]
    /\ UNCHANGED <<now, latest, pending, recent_timestamps, persisted, enq,
                   readers, vol, ingests, scan, wire, auxvars>>

RetryTick ==
    /\ now < MaxRetryTime
    /\ now' = now + 1
    /\ UNCHANGED <<latest, pending, recent_timestamps, persisted, enq, sched,
                   readers, vol, ingests, failures, scan, wire, auxvars>>

InitRetry ==
    /\ now = 0
    /\ latest = None
    /\ pending = UpsertPending(<< >>, 1, 0)
    /\ recent_timestamps = {}
    /\ persisted = {}
    /\ enq = [e \in Enqueuers |-> IdleEnq]
    /\ sched = IdleSched
    /\ readers = {}
    /\ vol = [h \in Handlers |-> IdleVol]
    /\ ingests = 0
    /\ failures = 0
    /\ scan = None
    /\ wire = None
    /\ sample = None
    /\ resolved = None
    /\ phase_debug = ZeroPhaseDebug
    /\ level_voxels = << >>
    /\ level_pc = "voxels"
    /\ fetched_body = None
    /\ traffic = None
    /\ store = None
    /\ push = None

NextRetry ==
    \/ SchedSelect
    \/ IngestFails
    \/ SchedFail
    \/ RetryTick

SpecRetry == InitRetry /\ [][NextRetry]_vars

\* the scheduler loop after a long run: timestamps 1..n were ingested in
\* this order and are all in recent_timestamps, n is in the slot, and the
\* timestamps after n up to RECENT_CAPACITY + 1 are pending
InitRecent ==
    /\ now = 0
    /\ \E n \in (RECENT_CAPACITY - 2)..RECENT_CAPACITY :
          /\ latest = Some([timestamp |-> n, gen |-> 0])
          /\ recent_timestamps = 1..n
          /\ pending = [T \in (n + 1)..(RECENT_CAPACITY + 1) |->
                           [attempts |-> 0, next_attempt_at |-> 0]]
    /\ persisted = {}
    /\ enq = [e \in Enqueuers |-> IdleEnq]
    /\ sched = IdleSched
    /\ readers = {}
    /\ vol = [h \in Handlers |-> IdleVol]
    /\ ingests = 0
    /\ failures = 0
    /\ scan = None
    /\ wire = None
    /\ sample = None
    /\ resolved = None
    /\ phase_debug = ZeroPhaseDebug
    /\ level_voxels = << >>
    /\ level_pc = "voxels"
    /\ fetched_body = None
    /\ traffic = None
    /\ store = None
    /\ push = None

NextRecent ==
    \/ SchedStep
    \/ Tick

SpecRecent == InitRecent /\ [][NextRecent]_vars

\* the scheduler loop with ingest_timestamp taken level by level: one
\* timestamp is pending and time passes
InitLevels == InitRetry

NextLevels ==
    \/ SchedSelect
    \/ \E f \in FanOuts : IngestFanOut(f)
    \/ IngestNextResult
    \/ IngestCheckLevels
    \/ SchedFail
    \/ Tick

SpecLevels == InitLevels /\ [][NextLevels]_vars

\* the push loop on its own: what one receive returns, and the loop with its
\* calls of enqueue_timestamp while the slot and recent_timestamps stay as an
\* earlier ingest left them
MessageBodies ==
    {None, Some(<<TextToken>>), Some(<<KeyToken(1)>>),
     Some(<<KeyToken(2), TextToken, KeyToken(1), KeyToken(2)>>)}

Received ==
    {[receive_error |-> TRUE]}
    \cup {[messages |-> m] :
            m \in UNION {[1..n -> [body : MessageBodies, receipt_handle : BOOLEAN]] :
                            n \in 0..MaxMessages}}

InitPush ==
    /\ now = 0
    /\ latest \in {None, Some([timestamp |-> 1, gen |-> 0])}
    /\ pending = << >>
    /\ recent_timestamps \in {{}, {2}}
    /\ persisted = {}
    /\ enq = [e \in Enqueuers |-> IdleEnq]
    /\ sched = IdleSched
    /\ readers = {}
    /\ vol = [h \in Handlers |-> IdleVol]
    /\ ingests = 0
    /\ failures = 0
    /\ scan = None
    /\ wire = None
    /\ sample = None
    /\ resolved = None
    /\ phase_debug = ZeroPhaseDebug
    /\ level_voxels = << >>
    /\ level_pc = "voxels"
    /\ fetched_body = None
    /\ traffic = None
    /\ store = None
    /\ push = IdlePush

NextPush ==
    \/ \E received \in Received : PushReceive(received)
    \/ PushExtract
    \/ PushEnqueue
    \/ EnqueueCheckRecent("sqs")
    \/ EnqueueInsert("sqs")
    \/ PushEnqueueReturned
    \/ \E delete_ok \in BOOLEAN : PushDelete(delete_ok)

SpecPush == InitPush /\ [][NextPush]_vars

\* =================================================================== claims

\* C1: every /volume and /meta response is computed from the one snapshot that
\* was in the slot when the handler took the read lock; the slot does not
\* change while a handler is reading it.
C1_ResponseFromOneSnapshot ==
    \A h \in Handlers :
        /\ vol[h].pc \in {"build", "headers", "meta"} =>
               h \in readers /\ SlotGen(latest) = vol[h].locked
        /\ vol[h].pc = "headers" => vol[h].body = vol[h].locked
        /\ vol[h].resp.status = 200 =>
               /\ vol[h].resp.body = vol[h].resp.locked
               /\ vol[h].resp.headers = vol[h].resp.locked

\* C1 witness: a query has read the body and still holds the guard while the
\* scheduler stands at the write lock with a snapshot that would replace it
C1_Witness ==
    \E h \in Handlers :
        /\ vol[h].pc = "headers"
        /\ sched.pc = "publish"
        /\ ShouldReplace(latest, sched.timestamp)
        /\ sched.gen # vol[h].locked

\* C2: the slot's timestamp never decreases; the slot changes only in the
\* publish step of a successful ingest whose timestamp is >= the one held;
\* once filled the slot is never empty again.
C2_LatestNeverDecreases ==
    [][ /\ IsSome(latest) =>
              /\ IsSome(latest')
              /\ Unwrap(latest').timestamp >= Unwrap(latest).timestamp
        /\ latest' # latest =>
              /\ sched.pc = "publish"
              /\ sched.levels_ok
              /\ latest' = Some([timestamp |-> sched.timestamp, gen |-> sched.gen])
              /\ (IsSome(latest) => sched.timestamp >= Unwrap(latest).timestamp)
      ]_vars

\* C2 witness: a successful ingest of an older timestamp went through the
\* publish step and the newer snapshot stayed in the slot
C2_Witness ==
    /\ sched.pc = "record"
    /\ IsSome(latest)
    /\ Unwrap(latest).timestamp > sched.timestamp

\* C3: a call of enqueue_timestamp(T) made while latest.timestamp >= T or while
\* T is in recent_timestamps never changes the pending map.
C3_EnqueueFilter ==
    [][ \A e \in Enqueuers :
          ( /\ enq'[e] # enq[e]
            /\ \/ (enq[e].pc # "idle" /\ enq[e].skip_at_call)
               \/ (enq[e].pc = "idle" /\ enq'[e].skip_at_call) )
          => pending' = pending
      ]_vars

\* C3 witness: such a call has returned
C3_Witness ==
    \E e \in Enqueuers :
        enq[e].pc = "idle" /\ enq[e].last = "skipped" /\ enq[e].skip_at_call

\* C4: the upsert of enqueue_timestamp(T) touches the entry of T only: it
\* creates it with attempts = 0, or sets next_attempt_at = now on the existing
\* one and keeps its attempts; one entry per timestamp.
C4_DuplicateEnqueue ==
    [][ \A e \in Enqueuers :
          (enq[e].pc = "insert" /\ enq'[e].pc = "idle") =>
             LET T == enq[e].timestamp
             IN  /\ DOMAIN pending' = DOMAIN pending \cup {T}
                 /\ \A k \in DOMAIN pending \ {T} : pending'[k] = pending[k]
                 /\ pending'[T].next_attempt_at = now
                 /\ pending'[T].attempts =
                        IF T \in DOMAIN pending THEN pending[T].attempts ELSE 0
      ]_vars

\* C4 witness: the only pending entry was enqueued again at a later time and
\* still has attempts = 0
C4_Witness ==
    \E e \in Enqueuers, T \in Timestamps :
        /\ enq[e].pc = "idle" /\ enq[e].last = "expedited"
        /\ DOMAIN pending = {T}
        /\ pending[T].attempts = 0
        /\ pending[T].next_attempt_at = now
        /\ now > 0

\* C5: an ingest succeeds only if every level was fetched and parsed and has
\* the base level's grid, and fails otherwise; the failed attempt leaves
\* latest, recent_timestamps and the persisted scans as they were.
C5_FailedIngestChangesNothing ==
    [][ /\ (sched.pc = "ingest" /\ sched'.pc = "persist") => sched'.levels_ok
        /\ (sched.pc = "ingest" /\ sched'.pc = "failed") => ~sched'.levels_ok
        /\ (sched.pc = "ingest" /\ sched'.pc = "failed") =>
               /\ latest' = latest
               /\ recent_timestamps' = recent_timestamps
               /\ persisted' = persisted
        /\ sched.pc = "failed" =>
               /\ latest' = latest
               /\ recent_timestamps' = recent_timestamps
               /\ persisted' = persisted
               /\ sched'.pc \in {"failed", "select"}
      ]_vars

\* C5 witness: an ingest has failed and its Err arm has run
C5_Witness ==
    /\ failures > 0
    /\ sched.pc = "select"
    /\ \E T \in DOMAIN pending : pending[T].attempts > 0

\* the snapshot and the 200 response of the state, and the query window the
\* response's header describes
HasBody == wire # None /\ wire[1].status = 200
Body == wire[1].body
HeaderWindow ==
    build_query_window(scan[1], Body.origin_lat_micro \div 10000,
                       Body.origin_lon_micro \div 10000,
                       Body.min_dbz_tenths * 10, Body.max_range_tenths \div 10)
FilteredVoxels ==
    { k \in 1..Len(scan[1].voxels) :
          PassesFilters(scan[1], HeaderWindow, scan[1].voxels[k]) }

\* C6: in a V2 response the per-level counts sum to the source_voxel_count
\* field, and the count of a level is the number of the snapshot's voxels of
\* that level that pass the window, minimum-dBZ and range filters.
C6_V2LayerCounts ==
    (HasBody /\ Body.version = 2) =>
        /\ SumSeq(Body.layer_counts) = Body.count_at_8
        /\ \A l \in 1..Body.level_count :
              Body.layer_counts[l] =
                  Cardinality({ k \in FilteredVoxels :
                                    scan[1].voxels[k].level_idx = l - 1 })

\* C6 witness: a V2 response where the filters dropped voxels, merging made
\* fewer bricks than source voxels, and two levels have a count
C6_Witness ==
    /\ HasBody /\ Body.version = 2
    /\ Body.count_at_8 < Len(scan[1].voxels)
    /\ 0 < Body.count_at_12 /\ Body.count_at_12 < Body.count_at_8
    /\ \E l1, l2 \in 1..Body.level_count :
          l1 # l2 /\ Body.layer_counts[l1] > 0 /\ Body.layer_counts[l2] > 0

\* C7: every brick of a V2 response has start <= end in rows, columns and
\* levels, at most max_span rows and columns (20 from 45.0 dBZ quantized on,
\* else 48) and at most 4 levels.
C7_BrickSpans ==
    (HasBody /\ Body.version = 2) =>
        \A i \in 1..Len(Body.records) :
            LET r        == Body.records[i]
                max_span == IF r.dbz_tenths >= 450 THEN 20 ELSE 48
            IN  /\ r.brick.row_start <= r.brick.row_end
                /\ r.brick.col_start <= r.brick.col_end
                /\ r.brick.level_start <= r.brick.level_end
                /\ r.brick.row_end - r.brick.row_start + 1 <= max_span
                /\ r.brick.col_end - r.brick.col_start + 1 <= max_span
                /\ r.brick.level_end - r.brick.level_start + 1 <= 4
                /\ r.span_y = r.brick.row_end - r.brick.row_start + 1
                /\ r.span_x = r.brick.col_end - r.brick.col_start + 1
                /\ r.span_z = r.brick.level_end - r.brick.level_start + 1

\* C7 witness: a V2 response with a brick of 48 columns below 45.0 dBZ, one of
\* 20 rows from 45.0 dBZ on, and one of 4 levels, each cut from something larger
C7_Witness ==
    /\ HasBody /\ Body.version = 2
    /\ \E i, j, k \in 1..Len(Body.records) :
          /\ Body.records[i].span_x = 48 /\ Body.records[i].dbz_tenths < 450
          /\ Body.records[j].span_y = 20 /\ Body.records[j].dbz_tenths >= 450
          /\ Body.records[k].span_z = 4

\* C8: the bytes after the header and the count table are count * record_bytes
\* long, count being the header's voxel count (V1) or brick count (V2).
C8_PayloadLength ==
    HasBody =>
        Body.payload_bytes =
            (IF Body.version = 1 THEN Body.count_at_8 ELSE Body.count_at_12)
                * Body.record_bytes

\* C9: V1 has the number of voxel records at offset 8 and 0 at offset 12;
\* V2 has source_voxel_count at offset 8 and the number of brick records at
\* offset 12.
C9_HeaderCounts ==
    HasBody =>
        IF Body.version = 1
        THEN Body.count_at_8 = Len(Body.records) /\ Body.count_at_12 = 0
        ELSE /\ Body.count_at_8 = Cardinality(FilteredVoxels)
             /\ Body.count_at_12 = Len(Body.records)

\* C10: tile_offsets starts at 0, has tile_cols * tile_rows + 1 entries, does
\* not decrease, ends at the number of voxels, and the voxels between
\* tile_offsets[i] and tile_offsets[i + 1] lie in tile i.
C10_TileOffsets ==
    scan # None =>
        LET s   == scan[1]
            off == s.tile_offsets
        IN  /\ off[1] = 0
            /\ Len(off) = s.tile_cols * s.tile_rows + 1
            /\ \A i \in 1..(Len(off) - 1) : off[i] <= off[i + 1]
            /\ off[Len(off)] = Len(s.voxels)
            /\ \A i \in 1..(Len(off) - 1) :
                  \A k \in (off[i] + 1)..off[i + 1] :
                      (s.voxels[k].row \div s.tile_size) * s.tile_cols
                          + (s.voxels[k].col \div s.tile_size) = i - 1

\* C10 witness: a snapshot of several tiles, some filled and some empty
C10_Witness ==
    /\ scan # None
    /\ \E i, j, k \in 1..(Len(scan[1].tile_offsets) - 1) :
          /\ i < j
          /\ scan[1].tile_offsets[i] < scan[1].tile_offsets[i + 1]
          /\ scan[1].tile_offsets[j] < scan[1].tile_offsets[j + 1]
          /\ scan[1].tile_offsets[k] = scan[1].tile_offsets[k + 1]
          /\ \E v \in 1..Len(scan[1].voxels) :
                scan[1].voxels[v].row >= scan[1].tile_size

\* ---------------------------------------------------------------- C11..C13
\* the sample the voxel loop has resolved, its evidence and its resolution
Sampled == Unwrap(sample)
Thermo == Unwrap(resolved).thermo
Dual == Unwrap(resolved).dual
Resolution == Unwrap(resolved).resolution
PrecipCodeIsSnow == IsSome(Sampled.precip) /\ RoundDiv(Unwrap(Sampled.precip), 10) = 3

\* C11: a voxel whose precip-flag sample is code 3 and whose thermodynamic
\* top phase is snow is resolved to snow, whatever the dual-pol phase, its
\* confidence and its staleness are.
C11_PrecipSnowOverride ==
    (resolved # None /\ PrecipCodeIsSnow /\ Thermo.phase = PHASE_SNOW)
        => Resolution.phase = PHASE_SNOW

\* the fusion had put rain first on fresh dual-pol rain of confidence 0.82,
\* away from any transition, and the override brought snow back
C11_Witness ==
    /\ resolved # None
    /\ PrecipCodeIsSnow
    /\ Thermo.phase = PHASE_SNOW
    /\ ~Thermo.near_transition
    /\ Dual = Some([phase |-> PHASE_RAIN, confidence |-> 820000])
    /\ Resolution.used_dual
    /\ Resolution.ranked[1][1] = PHASE_RAIN
    /\ Resolution.forced_precip_snow
    /\ Resolution.phase = PHASE_SNOW

\* the voxel at 8000 ft with a precip-flag sample of 3.0 as its only
\* thermodynamic input and dual-pol evidence (rain, 0.82)
OverrideScenario ==
    /\ sample # None
    /\ Sampled.voxel_mid_feet = 8000
    /\ Sampled.precip = Some(30)
    /\ Sampled.freezing = None /\ Sampled.wet_bulb = None
    /\ Sampled.surface_temp = None /\ Sampled.bright_band = <<None, None>>
    /\ Sampled.rqi = None
    /\ resolve_dual_pol_evidence(Sampled.zdr, Sampled.rhohv)
         = Some([phase |-> PHASE_RAIN, confidence |-> 820000])

\* C12 as stated: that voxel is resolved to snow and the precip-snow-forced
\* counter is incremented by 1 for it.
C12_SnowForcedCounted ==
    [][(OverrideScenario /\ resolved = None /\ resolved' # None)
        => /\ Unwrap(resolved').resolution.phase = PHASE_SNOW
           /\ phase_debug'.precip_snow_forced_voxel_count
                = phase_debug.precip_snow_forced_voxel_count + 1]_vars

\* C12 as amended: that voxel is resolved to snow by the fusion itself, snow
\* staying the top-ranked phase, and the precip-snow-forced counter is left
\* as it was.
C12_SnowWithoutForcing ==
    [][(OverrideScenario /\ resolved = None /\ resolved' # None)
        => /\ Unwrap(resolved').resolution.phase = PHASE_SNOW
           /\ Unwrap(resolved').resolution.ranked[1][1] = PHASE_SNOW
           /\ phase_debug'.precip_snow_forced_voxel_count
                = phase_debug.precip_snow_forced_voxel_count]_vars

\* the voxel of the scenario has been resolved with fresh dual-pol data; its
\* rain evidence was damped but still injected
C12_Witness ==
    /\ OverrideScenario
    /\ resolved # None
    /\ ~Sampled.use_aux_fallback
    /\ Thermo.signal_count = 1
    /\ Resolution.used_dual
    /\ Resolution.phase = PHASE_SNOW
    /\ phase_debug.thermo_signal_voxel_count = 1

\* whether two records are distinct cells that touch by a side or a corner
Touching(a, b) ==
    /\ Abs(a.row - b.row) <= 1
    /\ Abs(a.col - b.col) <= 1
    /\ <<a.row, a.col>> # <<b.row, b.col>>

\* whether record i of the level is a transition candidate of phase rain or
\* snow that touches a record of the opposite phase
OnTransitionEdge(records, i) ==
    /\ records[i].transition_candidate
    /\ records[i].phase \in {PHASE_RAIN, PHASE_SNOW}
    /\ \E j \in 1..Len(records) :
           /\ Touching(records[i], records[j])
           /\ records[j].phase = PHASE_RAIN + PHASE_SNOW - records[i].phase

\* C13: one pass of promote_mixed_transition_edges turns to MIXED exactly the
\* transition candidates of phase rain or snow that had, before the pass, a
\* voxel of the opposite phase among their 8 neighbours; every other voxel
\* keeps its phase, and the count returned is the number of voxels changed.
C13_PromotePass ==
    [][(level_pc = "voxels" /\ level_pc' = "promoted")
        => /\ Len(level_voxels') = Len(level_voxels)
           /\ \A i \in 1..Len(level_voxels) :
                  level_voxels'[i] =
                      IF OnTransitionEdge(level_voxels, i)
                      THEN [level_voxels[i] EXCEPT !.phase = PHASE_MIXED]
                      ELSE level_voxels[i]
           /\ phase_debug'.mixed_edge_promoted_voxel_count
                = phase_debug.mixed_edge_promoted_voxel_count
                  + Cardinality({i \in 1..Len(level_voxels) :
                                    level_voxels'[i] # level_voxels[i]})]_vars

\* a pass has promoted two candidates that touch by a corner and left a
\* third voxel of phase rain or snow as it was
C13_Witness ==
    /\ level_pc = "promoted"
    /\ Len(level_voxels) = 3
    /\ phase_debug.mixed_edge_promoted_voxel_count = 2
    /\ \E i, j \in 1..3 :
           /\ level_voxels[i].phase = PHASE_MIXED /\ level_voxels[j].phase = PHASE_MIXED
           /\ level_voxels[i].row # level_voxels[j].row
           /\ level_voxels[i].col # level_voxels[j].col
           /\ Touching(level_voxels[i], level_voxels[j])
    /\ \E k \in 1..3 : level_voxels[k].phase # PHASE_MIXED

\* ---------------------------------------------------------------------- C18
\* the ranking after dual-pol injection and mixed-competition promotion
MixedOnTop == resolved # None /\ Resolution.ranked[1][1] = PHASE_MIXED
BestNonMixed ==
    IF Resolution.ranked[2][1] = PHASE_MIXED THEN Resolution.ranked[3]
    ELSE Resolution.ranked[2]
MixedAdvantage == Resolution.ranked[1][2] - BestNonMixed[2]
RequiredMargin == IF Resolution.transition_like THEN 80000 ELSE 220000

\* C18 as stated: when MIXED is top-ranked, MIXED is returned only if its
\* score exceeds the best non-mixed score by at least 0.22, or 0.08 when the
\* voxel is transition-like; otherwise the best-scoring non-mixed phase is
\* returned and mixed is reported as suppressed.
C18_MixedMargin ==
    MixedOnTop
        => /\ Resolution.phase = PHASE_MIXED => MixedAdvantage >= RequiredMargin
           /\ MixedAdvantage < RequiredMargin
                => /\ Resolution.phase = BestNonMixed[1]
                   /\ Resolution.suppressed_mixed

\* C18 as amended: when MIXED is top-ranked, MIXED is returned only if its
\* margin is at least 0.22, or 0.08 when transition-like; otherwise mixed is
\* reported as suppressed and the phase returned is the best-scoring
\* non-mixed phase, unless the precip-flag snow override then replaces it
\* by snow.
C18_MixedMarginThenOverride ==
    MixedOnTop
        => /\ Resolution.phase = PHASE_MIXED => MixedAdvantage >= RequiredMargin
           /\ MixedAdvantage < RequiredMargin
                => /\ Resolution.suppressed_mixed
                   /\ Resolution.phase = IF Resolution.forced_precip_snow
                                         THEN PHASE_SNOW ELSE BestNonMixed[1]
           /\ MixedAdvantage >= RequiredMargin => ~Resolution.suppressed_mixed

\* MIXED led rain by more than 0.08 and less than 0.22 on a voxel that is not
\* transition-like, and rain was returned
C18_Witness ==
    /\ MixedOnTop
    /\ ~Resolution.transition_like
    /\ MixedAdvantage >= 80000
    /\ MixedAdvantage < 220000
    /\ Resolution.suppressed_mixed
    /\ ~Resolution.forced_precip_snow
    /\ Resolution.phase = PHASE_RAIN

\* ------------------------------------------------------------------- C14
\* the records of the decoded body that the loop does not skip, as aircraft
ValidRecords ==
    LET decoded == Unwrap(fetched_body).decoded
    IN  {SlotAircraft(decoded.slots[i], decoded.version) :
            i \in {i \in 1..Len(decoded.slots) : SlotIsValid(decoded.slots[i])}}

\* C14: the decoded traffic list holds at most one record per hex, and for
\* every hex of a valid record of the payload it holds one of the valid
\* records of that hex whose last_seen_seconds is smallest among them, a
\* record without last-seen counting as larger than any value.
C14_DedupeKeepsSmallestSeen ==
    (fetched_body # None /\ traffic # None /\ traffic.ok) =>
        LET list == traffic.aircraft
        IN  /\ \A i, j \in 1..Len(list) : i # j => list[i].hex # list[j].hex
            /\ \A k \in 1..Len(list) :
                  /\ list[k] \in ValidRecords
                  /\ \A other \in ValidRecords :
                        other.hex = list[k].hex =>
                            SeenOrInfinity(list[k]) <= SeenOrInfinity(other)
            /\ \A record \in ValidRecords :
                  \E k \in 1..Len(list) : list[k].hex = record.hex

\* a payload whose second valid record repeats the hex of the first with a
\* smaller last-seen, and one whose repeated record has no last-seen at all
C14_Witness ==
    /\ fetched_body # None /\ traffic # None /\ traffic.ok
    /\ Len(traffic.aircraft) = 1
    /\ LET decoded == Unwrap(fetched_body).decoded
       IN  /\ Len(decoded.slots) = 2
           /\ SlotIsValid(decoded.slots[1]) /\ SlotIsValid(decoded.slots[2])
           /\ SeenOrInfinity(SlotAircraft(decoded.slots[2], decoded.version))
                < SeenOrInfinity(SlotAircraft(decoded.slots[1], decoded.version))
           /\ SlotAircraft(decoded.slots[1], decoded.version).last_seen_seconds # None

\* ------------------------------------------------------------------- C15
\* the configured base URLs as written, primary first, and the place of the
\* first occurrence of one of them
Configured ==
    <<traffic.cfg.adsbx_primary_base_url>> \o traffic.cfg.adsbx_fallback_base_urls

FirstAt(base_url) ==
    CHOOSE i \in 1..Len(Configured) :
        /\ Configured[i] = base_url
        /\ \A j \in 1..(i - 1) : Configured[j] # base_url

ValidLatLon ==
    /\ IsSome(traffic.query.lat) /\ Abs(Unwrap(traffic.query.lat)) <= 90000000
    /\ IsSome(traffic.query.lon) /\ Abs(Unwrap(traffic.query.lon)) <= 180000000

\* C15: for a /traffic request with valid lat/lon the base URLs contacted so
\* far are configured ones, in configured order with none skipped and none
\* repeated; only the last contacted one can have succeeded; a success
\* response comes from that last, successful candidate; an error payload is
\* returned only when every configured candidate was contacted and failed;
\* and the status of both is 200.
C15_CandidatesInOrder ==
    (traffic # None /\ ValidLatLon) =>
        LET contacted == traffic.contacted
            n == Len(contacted)
        IN  /\ \A k \in 1..n :
                  /\ contacted[k].base_url # ""
                  /\ \E i \in 1..Len(Configured) : Configured[i] = contacted[k].base_url
            /\ \A k \in 1..n :
                  /\ \A l \in (k + 1)..n :
                        FirstAt(contacted[k].base_url) < FirstAt(contacted[l].base_url)
                  /\ \A i \in 1..(FirstAt(contacted[k].base_url) - 1) :
                        \/ Configured[i] = ""
                        \/ \E j \in 1..(k - 1) : contacted[j].base_url = Configured[i]
                  /\ k < n => ~contacted[k].ok
            /\ traffic.response # None =>
                  LET response == Unwrap(traffic.response)
                  IN  /\ response.status = 200
                      /\ response.kind = "success" =>
                            /\ n > 0 /\ contacted[n].ok
                            /\ response.source = contacted[n].base_url
                      /\ response.kind = "error" =>
                            /\ \A k \in 1..n : ~contacted[k].ok
                            /\ \A i \in 1..Len(Configured) :
                                  \/ Configured[i] = ""
                                  \/ \E k \in 1..n :
                                        contacted[k].base_url = Configured[i]

\* the primary is also listed as the first fallback; it failed once, the next
\* distinct fallback succeeded and supplied the response
C15_Witness ==
    /\ traffic # None /\ ValidLatLon
    /\ traffic.cfg.adsbx_primary_base_url = "a"
    /\ traffic.cfg.adsbx_fallback_base_urls = <<"a", "b">>
    /\ Len(traffic.contacted) = 2
    /\ ~traffic.contacted[1].ok /\ traffic.contacted[2].ok
    /\ traffic.response # None
    /\ Unwrap(traffic.response).kind = "success"
    /\ Unwrap(traffic.response).source = "b"

\* ------------------------------------------------------------------- C16
\* C16: trace history is requested only for aircraft among the first 80 of
\* the response list, at most 8 trace requests are in flight at any moment,
\* and a step that starts trace requests starts at most 8 of them and is
\* taken only when no request of the previous batch is still in flight.
C16_TraceBatches ==
    [][/\ traffic'.requested \subseteq
              1..Min(Len(traffic'.aircraft), TRACE_HISTORY_MAX_AIRCRAFT)
       /\ Cardinality(traffic'.in_flight) <= TRACE_HISTORY_BATCH_SIZE
       /\ traffic'.requested # traffic.requested =>
              /\ traffic.in_flight = {}
              /\ Cardinality(traffic'.requested \ traffic.requested)
                   <= TRACE_HISTORY_BATCH_SIZE
              /\ traffic'.in_flight = traffic'.requested \ traffic.requested]_vars

\* a response list longer than 80 aircraft: the tenth batch, aircraft 73 to
\* 80, is in flight, every earlier one has completed, none is left to request
C16_Witness ==
    /\ traffic # None
    /\ traffic.pc = "traces"
    /\ Len(traffic.aircraft) > TRACE_HISTORY_MAX_AIRCRAFT
    /\ traffic.requested = 1..TRACE_HISTORY_MAX_AIRCRAFT
    /\ traffic.in_flight = 73..80
    /\ traffic.history_by_hex # {}

DueEntries == {t \in DOMAIN pending : pending[t].next_attempt_at <= now}

Selecting == sched.pc = "select" /\ sched'.pc = "ingest"

\* C19 as stated: the entry the scheduler loop selects is, among the pending
\* entries with next_attempt_at <= now, the one with the greatest timestamp.
C19_SelectsGreatestDue ==
    [][Selecting => /\ sched'.timestamp \in DueEntries
                    /\ \A t \in DueEntries : t <= sched'.timestamp]_vars

\* C19 amended: the entry the scheduler loop selects is, among the pending
\* entries with next_attempt_at <= now, one with the earliest
\* next_attempt_at, and among several of these the one with the lexically
\* smallest timestamp.
C19_SelectsEarliestDue ==
    [][Selecting =>
          /\ sched'.timestamp \in DueEntries
          /\ \A t \in DueEntries :
                \/ pending[t].next_attempt_at
                     > pending[sched'.timestamp].next_attempt_at
                \/ /\ pending[t].next_attempt_at
                        = pending[sched'.timestamp].next_attempt_at
                   /\ t >= sched'.timestamp]_vars

\* the loop has taken timestamp 1 for an attempt while the greater timestamp
\* 2, due since before the clock last moved, is left in the map
C19_Witness ==
    /\ sched.pc = "ingest"
    /\ sched.timestamp = 1
    /\ 2 \in DOMAIN pending
    /\ pending[2].next_attempt_at < now
    /\ pending[2].attempts = 0

\* ------------------------------------------------------------------- C20
\* C20: when an attempt for T fails and the entry removed for it had
\* attempts = a, T is pending afterwards with attempts = a + 1 and
\* next_attempt_at = now + pending_retry_delay if a + 1 < 20 and is not
\* pending otherwise; every pending entry has attempts < 20; and a timestamp
\* enqueued once whose ingests always fail has had as many attempts as its
\* entry counts while it is pending, never more than 20, and exactly 20 once
\* it is neither pending nor being attempted.
C20_RetryUntilCap ==
    /\ [](/\ \A t \in DOMAIN pending : pending[t].attempts < MAX_PENDING_ATTEMPTS
          /\ failures <= MAX_PENDING_ATTEMPTS
          /\ \A t \in DOMAIN pending : pending[t].attempts = failures
          /\ (sched.pc = "select" /\ pending = << >>) =>
                failures = MAX_PENDING_ATTEMPTS)
    /\ [][(sched.pc = "failed" /\ sched'.pc = "select") =>
             IF sched.attempts + 1 < MAX_PENDING_ATTEMPTS
             THEN /\ sched.timestamp \in DOMAIN pending'
                  /\ pending'[sched.timestamp] =
                        [attempts |-> sched.attempts + 1,
                         next_attempt_at |-> now + PendingRetryDelay]
             ELSE sched.timestamp \notin DOMAIN pending']_vars

\* the twentieth attempt has failed and the timestamp has been dropped
C20_Witness ==
    /\ sched.pc = "select"
    /\ pending = << >>
    /\ failures = MAX_PENDING_ATTEMPTS
    /\ now >= 19 * PendingRetryDelay

\* ------------------------------------------------------------------- C21
\* the step that ends the handling of a successful ingest
Pruning == sched.pc = "prune" /\ sched'.pc = "select"

\* C21: when the scheduler finishes handling a successful ingest of T the
\* pending map holds no entry with a timestamp older than T, and every entry
\* that had a timestamp strictly greater than T is still pending with the
\* attempts and next_attempt_at it had.
C21_PruneOlderKeepNewer ==
    [][Pruning =>
          /\ \A k \in DOMAIN pending' : ~(k < sched.timestamp)
          /\ \A k \in DOMAIN pending :
                k > sched.timestamp =>
                    k \in DOMAIN pending' /\ pending'[k] = pending[k]]_vars

\* a successful ingest of timestamp 1 has been handled to its end and the
\* entry of timestamp 2, retried once before, is pending with its count
C21_Witness ==
    /\ sched.pc = "select"
    /\ latest = Some([timestamp |-> 1, gen |-> 1])
    /\ 1 \in recent_timestamps
    /\ 2 \in DOMAIN pending
    /\ pending[2].attempts = 1
    /\ 1 \notin DOMAIN pending

\* ------------------------------------------------------------------- C22
\* C22: the scheduler loop starts an attempt only for an entry whose
\* next_attempt_at is not later than the current time; the entry of a failed
\* attempt comes back with next_attempt_at = now + pending_retry_delay; and
\* the only other step that creates an entry or changes one is the upsert of
\* an enqueue of that timestamp, which sets next_attempt_at = now. So after a
\* failure at time t the timestamp is not attempted before
\* t + pending_retry_delay unless an enqueue has reset its entry.
C22_NoAttemptBeforeDue ==
    [][ /\ Selecting => pending[sched'.timestamp].next_attempt_at <= now
        /\ (sched.pc = "failed" /\ sched'.pc = "select") =>
              \A T \in DOMAIN pending' \ DOMAIN pending :
                  /\ T = sched.timestamp
                  /\ pending'[T].next_attempt_at = now + PendingRetryDelay
        /\ \A T \in DOMAIN pending' :
              (T \notin DOMAIN pending \/ pending'[T] # pending[T]) =>
                  \/ /\ sched.pc = "failed" /\ sched.timestamp = T
                     /\ pending'[T].next_attempt_at = now + PendingRetryDelay
                  \/ \E e \in Enqueuers :
                        /\ enq[e].pc = "insert" /\ enq[e].timestamp = T
                        /\ pending'[T].next_attempt_at = now
      ]_vars

\* a second attempt of a timestamp has started once its retry delay has
\* passed, the failed attempt and the retry being the only ones so far
C22_Witness ==
    /\ sched.pc = "ingest"
    /\ sched.attempts = 1
    /\ failures = 1
    /\ now = PendingRetryDelay
    /\ enq["bootstrap"].last = "inserted"

\* ------------------------------------------------------------------- C23
\* C23: whenever the scheduler loop is not handling the result of an ingest
\* (it is selecting, or waiting for ingest_timestamp), no pending timestamp is
\* <= the timestamp of the latest slot and none is in recent_timestamps.
C23_NoSupersededPending ==
    sched.pc \in {"select", "ingest"} =>
        \A T \in DOMAIN pending :
            /\ ~SupersededByLatest(T, latest)
            /\ T \notin recent_timestamps

\* ------------------------------------------------------------------- C24
\* the step that records a successful ingest, and the timestamp recorded
\* longest ago (timestamps are recorded in increasing order in SpecRecent)
Recording == sched.pc = "record" /\ sched'.pc = "prune"
OldestRecorded == CHOOSE T \in recent_timestamps : \A U \in recent_timestamps : T <= U

\* C24: recent_timestamps never holds more than 512 timestamps once a success
\* has been recorded, and when recording a timestamp pushes the set past 512
\* exactly the timestamp recorded longest ago is discarded, never the one
\* just recorded.
C24_DiscardsOldest ==
    /\ [](Cardinality(recent_timestamps) <= RECENT_CAPACITY)
    /\ [][(Recording /\ Cardinality(recent_timestamps \cup {sched.timestamp})
                          > RECENT_CAPACITY) =>
             /\ sched.timestamp \in recent_timestamps'
             /\ recent_timestamps' =
                   (recent_timestamps \cup {sched.timestamp}) \ {OldestRecorded}]_vars

\* ------------------------------------------------------------------- C25
\* C25: a /volume handler that has built its response no longer holds the
\* read lock on the latest slot, and the scheduler loop waiting for the write
\* lock is never kept out by a handler that is building its response or has
\* built it.
C25_LockReleasedBeforeBuild ==
    /\ vol["volume"].pc = "headers" => "volume" \notin readers
    /\ (sched.pc = "publish" /\ ~CanWrite(readers)) =>
          \A h \in readers : vol[h].pc \notin {"build", "headers"}

\* ------------------------------------------------------------------- C26
\* C26: when ingest_timestamp reports failure the outcomes of all 33 level
\* fetches have been taken from the stream, whichever level failed and in
\* whichever order the fetches completed.
C26_AllLevelsCollected ==
    sched.pc = "failed" => sched.taken = LEVEL_COUNT

\* ------------------------------------------------------------------- C27
\* the timestamps of the body of the message the push loop is at
BodyTimestamps ==
    IF IsSome(Unwrap(push.message).body)
    THEN extract_timestamps_from_sqs_body(Unwrap(Unwrap(push.message).body))
    ELSE << >>

C28_PromoteIdempotent ==
    [][(level_pc = "promoted" /\ level_pc' = "promoted twice")
        => /\ level_voxels' = level_voxels
           /\ phase_debug'.mixed_edge_promoted_voxel_count
                = phase_debug.mixed_edge_promoted_voxel_count]_vars

\* the second application has run on a level where the first promoted a
\* voxel and left beside it a transition candidate of phase rain or snow
C28_Witness ==
    /\ level_pc = "promoted twice"
    /\ phase_debug.mixed_edge_promoted_voxel_count = 1
    /\ \E i, j \in 1..Len(level_voxels) :
           /\ level_voxels[i].phase = PHASE_MIXED
           /\ level_voxels[i].transition_candidate
           /\ level_voxels[j].phase \in {PHASE_RAIN, PHASE_SNOW}
           /\ level_voxels[j].transition_candidate
           /\ Touching(level_voxels[i], level_voxels[j])


\* ---------------------------------------------------- V2 bricks and voxels
\* the cell (level, row, column) lies within the ranges of the brick
InsideBrick(brick, level_idx, row, col) ==
    /\ brick.level_start <= level_idx /\ level_idx <= brick.level_end
    /\ brick.row_start <= row /\ row <= brick.row_end
    /\ brick.col_start <= col /\ col <= brick.col_end

\* the emitted bricks (by index of their record) that hold voxel k
BricksHolding(k) ==
    { i \in 1..Len(Body.records) :
          InsideBrick(Body.records[i].brick, scan[1].voxels[k].level_idx,
                      scan[1].voxels[k].row, scan[1].voxels[k].col) }

\* C30: in a V2 response every voxel that passed the window, minimum-dBZ and
\* range filters lies inside exactly one emitted brick, that brick has the
\* voxel's phase and the voxel's dBZ quantized to the 5 dBZ step, and every
\* (row, column, level) cell in the ranges of an emitted brick is such a voxel,
\* so a brick of several levels covers consecutive level indices only.
C30_BricksPartitionVoxels ==
    (HasBody /\ Body.version = 2) =>
        /\ \A k \in FilteredVoxels :
              /\ Cardinality(BricksHolding(k)) = 1
              /\ \A i \in BricksHolding(k) :
                    /\ Body.records[i].phase = scan[1].voxels[k].phase
                    /\ Body.records[i].dbz_tenths =
                           quantize_dbz_tenths(scan[1].voxels[k].dbz_tenths,
                               WIRE_V2_DBZ_QUANT_STEP_TENTHS)
        /\ \A i \in 1..Len(Body.records) :
              LET brick == Body.records[i].brick
              IN  \A level_idx \in brick.level_start..brick.level_end,
                     row \in brick.row_start..brick.row_end,
                     col \in brick.col_start..brick.col_end :
                     \E k \in FilteredVoxels :
                         /\ scan[1].voxels[k].level_idx = level_idx
                         /\ scan[1].voxels[k].row = row
                         /\ scan[1].voxels[k].col = col

\* C30 witness: a V2 response where the filters dropped some voxels and kept
\* others, one emitted brick spans several levels, rows and columns, and a
\* kept voxel's dBZ differs from the quantized dBZ of the brick that holds it
C30_Witness ==
    /\ HasBody /\ Body.version = 2
    /\ FilteredVoxels # {}
    /\ Cardinality(FilteredVoxels) < Len(scan[1].voxels)
    /\ \E i \in 1..Len(Body.records) :
          /\ Body.records[i].brick.level_end > Body.records[i].brick.level_start
          /\ Body.records[i].brick.row_end > Body.records[i].brick.row_start
          /\ Body.records[i].brick.col_end > Body.records[i].brick.col_start
    /\ \E k \in FilteredVoxels : \E i \in BricksHolding(k) :
          Body.records[i].dbz_tenths # scan[1].voxels[k].dbz_tenths

\* ------------------------------------------------ the scheduler loop, fair
\* ingest_timestamp(&state, &timestamp).await returns Ok or Err; no bound on
\* how often either happens
IngestReturns(ok) ==
    /\ sched.pc = "ingest"
    /\ sched' = [sched EXCEPT !.pc = IF ok THEN "persist" ELSE "failed"]
    /\ UNCHANGED <<now, latest, pending, recent_timestamps, persisted, enq,
                   readers, vol, ingests, failures, scan, wire, auxvars>>

\* One clock tick on a map whose Instants are kept as offsets from the
\* current instant.  The loop only compares an Instant with now and with
\* other Instants, so the past ones are kept by their order: -1 the latest.
Elapse(map) ==
    LET shifted == [k \in DOMAIN map |-> map[k].next_attempt_at - 1]
        past    == { shifted[k] : k \in { j \in DOMAIN map : shifted[j] < 0 } }
        rank(v) == -Cardinality({ w \in past : w >= v })
    IN  [k \in DOMAIN map |->
            [map[k] EXCEPT !.next_attempt_at =
                IF shifted[k] < 0 THEN rank(shifted[k]) ELSE shifted[k]]]

\* Time passes, without end: `now` stays the origin of the offsets
ClockAdvances ==
    /\ pending' = Elapse(pending)
    /\ UNCHANGED <<now, latest, recent_timestamps, persisted, enq, sched,
                   readers, vol, ingests, failures, scan, wire, auxvars>>

\* the scheduler loop with ingests that succeed or fail without bound
SchedStepFair ==
    \/ SchedSelect
    \/ \E ok \in BOOLEAN : IngestReturns(ok)
    \/ \E written \in BOOLEAN : SchedPersist(written)
    \/ SchedPublish
    \/ SchedRecord
    \/ SchedPrune
    \/ SchedFail

NextFair ==
    \/ EnqueueStep("bootstrap")
    \/ SchedStepFair
    \/ ClockAdvances

\* The loop is a spawned task that is always rescheduled, every await in it
\* returns, and the clock goes on.
SpecFair ==
    /\ Init
    /\ [][NextFair]_vars
    /\ WF_vars(SchedStepFair)
    /\ WF_vars(ClockAdvances)

\* a step in which enqueue_timestamp puts T into the pending map
EnqueuesInto(T) ==
    \E e \in Enqueuers : enq[e].pc = "insert" /\ enq[e].timestamp = T
                         /\ enq'[e].pc = "idle"

\* a step in which T leaves the pending map: the loop takes it for an attempt,
\* or prunes it after a successful ingest of T or of a later timestamp
LeavesByLoop(T) ==
    (T \in DOMAIN pending /\ T \notin DOMAIN pending') =>
        \/ sched.pc = "select" /\ sched'.pc = "ingest" /\ sched'.timestamp = T
        \/ sched.pc = "prune" /\ sched.timestamp >= T

\* a failed attempt of T puts T back unless it was the 20th
DroppedOnlyAtCap(T) ==
    (sched.pc = "failed" /\ sched'.pc = "select" /\ sched.timestamp = T
     /\ T \notin DOMAIN pending') =>
        sched.attempts + 1 = MAX_PENDING_ATTEMPTS

\* C29: with the scheduler loop running, every attempt returning and the
\* clock advancing, a timestamp T that is no longer enqueued from some point
\* on is eventually out of the pending map for good; T leaves the map only
\* taken by the loop for an attempt or pruned after a successful ingest of a
\* timestamp >= T, and a failed attempt drops T only when it was the 20th.
C29_PendingEventuallyLeaves ==
    /\ \A T \in Timestamps :
          (<>[][~EnqueuesInto(T)]_vars) => <>[](T \notin DOMAIN pending)
    /\ [][\A T \in Timestamps : LeavesByLoop(T) /\ DroppedOnlyAtCap(T)]_vars

\* C29 witness: the loop is in the Err arm after the 20th failed attempt of
\* a timestamp while another timestamp is pending and due
C29_Witness ==
    /\ sched.pc = "failed"
    /\ sched.attempts + 1 = MAX_PENDING_ATTEMPTS
    /\ \E U \in DOMAIN pending :
          U # sched.timestamp /\ pending[U].next_attempt_at <= now

=============================================================================
